---- MODULE Spec2Model ----
(***************************************************************************)
(* A model of the training core of dreamerv3: the Optimizer wrapper with   *)
(* mixed-precision loss scaling, the SlowUpdater (polyak averaging of a     *)
(* fast module into its slow copy), the order of the calls inside one      *)
(* Agent.train call, the lambda-return of VFunction.score, the imagination *)
(* rollout of WorldModel.imagine, both paths of jaxutils.scan, Agent.policy *)
(* and the recurrent state of training calls, OneHotDist.sample, the saved  *)
(* state of an Optimizer, the errors of construction and dispatch, the      *)
(* return normalizer Moments, the actor loss of ImagActorCritic, the freeze *)
(* of the prototypes in the Optimizer, and the training loop of train.py.   *)
(*                                                                         *)
(* Numbers.  grad_scale is a float16; every value it takes is m * 2^e with *)
(* m = 625 (1e4 = 625 * 2^4 and its halvings) or m = 839 (the float16      *)
(* nearest to 1e-4 is 1678 * 2^-24 = 839 * 2^-23, and its doublings), so    *)
(* it is kept as the record [m, e] and halving and doubling are exact.     *)
(* Parameters are fixed-point integers with a NaN flag.                    *)
(***************************************************************************)
EXTENDS Integers, Sequences, FiniteSets, TLC

VARIABLES
    cfg,      \* the configuration the agent was constructed with
    pc,       \* position inside Agent.train
    opts,     \* per Optimizer: step, grad_scale, good_steps, notfinite_count
    params,   \* the parameter store: module name -> value
    updates,  \* per SlowUpdater: its updates counter
    trains,   \* number of completed Agent.train calls
    last,     \* the last Optimizer call: which optimizer, were the gradients finite
    fin,      \* inputs of the pure function under check (score, imagine, ...)
    fout      \* its result

vars == <<cfg, pc, opts, params, updates, trains, last, fin, fout>>

trainVars == <<cfg, pc, opts, params, updates, trains, last>>
fnVars == <<fin, fout>>

----------------------------------------------------------------------------
(* Bounds of the model.                                                    *)

\* Agent.train calls in one behaviour of Spec
MaxTrain == 3
\* SlowUpdater periods 1..MaxPeriod
MaxPeriod == 2
\* SpecOpt: counted steps beyond the 1000 good steps that lead to a doubling
MaxExtraSteps == 2
\* SpecOpt: non-finite gradients arrive only while step < MaxBadStep
MaxBadStep == 2
\* SpecOpt: consecutive non-finite calls beyond max_consecutive_errors
MaxExtraErrors == 2

----------------------------------------------------------------------------
(* Program constants.                                                      *)

\* jaxutils.py:493-494  good_steps < 1000 / >= 1000
GoodStepsLimit == 1000
\* jaxutils.py:431  optax.apply_if_finite(self.opt, max_consecutive_errors=1000)
MaxConsecutiveErrors == 1000

----------------------------------------------------------------------------
(* float16 values m * 2^e of grad_scale.                                   *)

RECURSIVE Pow2(_)
Pow2(n) == IF n <= 0 THEN 1 ELSE 2 * Pow2(n - 1)

\* a < b for a = [m, e], b = [m, e], with 0 < m < 1024
ScaleLess(a, b) ==
    LET d == a.e - b.e IN
    IF d >= 0
    THEN d <= 10 /\ a.m * Pow2(d) < b.m
    ELSE (-d) > 10 \/ a.m < b.m * Pow2(-d)

\* jnp.array(1e4, float16): 10000 = 625 * 2^4
ScaleInit == [m |-> 625, e |-> 4]
\* the clip bounds 1e-4 and 1e4 as float16: 839 * 2^-23 and 625 * 2^4
ScaleMin == [m |-> 839, e |-> -23]
ScaleMax == [m |-> 625, e |-> 4]

\* faulty variant: the lower bound of the clip is missing
ScaleClipNoMin(x) ==
    IF ScaleLess(ScaleMax, x) THEN ScaleMax ELSE x

ScaleClip(x) ==
    IF ScaleLess(x, ScaleMin) THEN ScaleMin
    ELSE IF ScaleLess(ScaleMax, x) THEN ScaleMax
    ELSE x

ScaleTimes2(x) == [x EXCEPT !.e = @ + 1]
ScaleDiv2(x) == [x EXCEPT !.e = @ - 1]

----------------------------------------------------------------------------
(* Parameter values: fixed-point numbers with a NaN flag.                  *)

Val(x) == [nan |-> FALSE, v |-> x]
NaN == [nan |-> TRUE, v |-> 0]

\* s + d of floats
ValAdd(a, b) == IF a.nan \/ b.nan THEN NaN ELSE Val(a.v + b.v)

\* mix * s + (1 - mix) * d of floats, mix = num/den, rounded down to the grid
ValMix(s, d, mix) ==
    IF s.nan \/ d.nan THEN NaN
    ELSE Val((mix.num * s.v + (mix.den - mix.num) * d.v) \div mix.den)

\* a gradient tree: all leaves finite with value v, or some leaf non-finite
FiniteGrad(x) == [finite |-> TRUE, v |-> x]
NonFiniteGrad == [finite |-> FALSE, v |-> 0]

----------------------------------------------------------------------------
(* Optimizer (jaxutils.py:380-506).                                        *)

OptNames == {"model_opt", "actor_opt", "critic_opt"}

\* Optimizer.__init__: step 0; under scaling grad_scale 1e4, good_steps 0 and
\* the apply_if_finite wrapper, whose state starts with notfinite_count 0
OptimizerInit ==
    [step |-> 0, grad_scale |-> ScaleInit, good_steps |-> 0,
     notfinite_count |-> 0]

\* faulty variant: the scale doubles on the call that finds good_steps = 999
UpdateScaleOffByOne(o, finite) ==
    LET keep == finite /\ o.good_steps < GoodStepsLimit - 1
        incr == finite /\ o.good_steps >= GoodStepsLimit - 1
        raw == IF keep THEN o.grad_scale
               ELSE IF incr THEN ScaleTimes2(o.grad_scale)
               ELSE ScaleDiv2(o.grad_scale)
    IN [o EXCEPT !.good_steps = IF keep THEN o.good_steps + 1 ELSE 0,
                 !.grad_scale = ScaleClip(raw)]

\* faulty variant: the doubling step does not start the count again
UpdateScaleNoReset(o, finite) ==
    LET keep == finite /\ o.good_steps < GoodStepsLimit
        incr == finite /\ o.good_steps >= GoodStepsLimit
        raw == IF keep THEN o.grad_scale
               ELSE IF incr THEN ScaleTimes2(o.grad_scale)
               ELSE ScaleDiv2(o.grad_scale)
    IN [o EXCEPT !.good_steps = IF keep THEN o.good_steps + 1
                                ELSE IF incr THEN o.good_steps ELSE 0,
                 !.grad_scale = ScaleClip(raw)]

\* Optimizer._update_scale: the new good_steps and grad_scale
UpdateScale(o, finite) ==
    LET keep == finite /\ o.good_steps < GoodStepsLimit
        incr == finite /\ o.good_steps >= GoodStepsLimit
        decr == ~finite
        raw == IF keep THEN o.grad_scale
               ELSE IF incr THEN ScaleTimes2(o.grad_scale)
               ELSE IF decr THEN ScaleDiv2(o.grad_scale)
               ELSE o.grad_scale
    IN [o EXCEPT !.good_steps = IF keep THEN o.good_steps + 1 ELSE 0,
                 !.grad_scale = ScaleClip(raw)]

\* optax.apply_if_finite: the consecutive-error count after this update
NotFiniteCount(o, finite) ==
    IF finite THEN 0 ELSE o.notfinite_count + 1

\* optax.apply_if_finite: the inner update runs when the gradients are finite,
\* or when more than max_consecutive_errors updates in a row were not
DoUpdate(o, finite) ==
    finite \/ NotFiniteCount(o, finite) > MaxConsecutiveErrors

\* the chain's update for a gradient: scale_by_adam and scale(-lr) turn a
\* finite gradient into a step against it, a non-finite one into NaN
ChainUpdate(g) == IF g.finite THEN Val(-g.v) ELSE NaN

\* faulty variant: the update is never skipped
OptUpdateNoSkip(o, g, scaling) == ChainUpdate(g)

\* self.opt.update(grads, optstate, params): the updates handed to apply_updates
OptUpdate(o, g, scaling) ==
    IF scaling
    THEN IF DoUpdate(o, g.finite) THEN ChainUpdate(g) ELSE Val(0)
    ELSE ChainUpdate(g)

\* faulty variant: every call counts as a step
StepAfterAlways(o, g) == o.step + 1

\* self.step.write(self.step.read() + isfinite(norm)): the global norm of the
\* gradients is finite exactly when every leaf is
StepAfter(o, g) == o.step + (IF g.finite THEN 1 ELSE 0)

\* the Optimizer's variables after one call
OptimizerState(o, g, scaling) ==
    LET s == IF scaling THEN UpdateScale(o, g.finite) ELSE o
    IN [step |-> StepAfter(o, g),
        grad_scale |-> s.grad_scale,
        good_steps |-> s.good_steps,
        notfinite_count |->
            IF scaling THEN NotFiniteCount(o, g.finite) ELSE o.notfinite_count]

\* nj.context().update(optax.apply_updates(params, updates)): only the
\* parameters of the modules handed to the call are written
ApplyUpdates(p, modules, u) ==
    [k \in DOMAIN p |-> IF k \in modules THEN ValAdd(p[k], u) ELSE p[k]]

\* Optimizer.__call__(modules, lossfn, ...) with gradients g
OptimizerCall(name, modules, g) ==
    /\ opts' = [opts EXCEPT ![name] = OptimizerState(opts[name], g, cfg.scaling)]
    /\ params' = ApplyUpdates(params, modules, OptUpdate(opts[name], g, cfg.scaling))
    /\ last' = [opt |-> name, finite |-> g.finite, tick |-> 1 - last.tick]

\* a loss computed from NaN parameters has no finite gradient
GradPossible(modules, g) ==
    g.finite => \A k \in modules \cap DOMAIN params : ~params[k].nan

----------------------------------------------------------------------------
(* Configuration (agent.py:188-348, 594-636).                              *)

\* encoders whose weights are trained, and the two kinds that are not
CnnKinds == {"resnet", "pretrained", "frame_averaging"}

EncoderTrained(c) == c.encoder_cnn \notin {"pretrained", "frame_averaging"}

\* slow_critic_fraction as num/den, and slow_critic_update
Fractions == {[num |-> 0, den |-> 2], [num |-> 1, den |-> 2], [num |-> 2, den |-> 2]}

CfgSet ==
    [scaling : BOOLEAN, swav : BOOLEAN, equiv : BOOLEAN, encoder_cnn : CnnKinds,
     fraction : Fractions, period : 1..MaxPeriod]

\* the modules that hold parameters
ModuleNames(c) ==
    {"rssm", "rew", "cont", "enc", "actor", "net", "slow"}
    \cup (IF c.swav THEN {"obs_proj", "ema_proj"} ELSE {"dec"})
    \cup (IF c.swav /\ EncoderTrained(c) THEN {"slow_enc"} ELSE {})

\* the modules constructed as slow copies: slow_enc, ema_proj, VFunction.slow
SlowNames == {"slow_enc", "ema_proj", "slow"}

\* the slow copies in use: with a pretrained or frame-averaging encoder
\* WorldModel._ema_encoder is the encoder itself
SlowCopies(c) ==
    {"slow"}
    \cup (IF c.swav THEN {"ema_proj"} ELSE {})
    \cup (IF c.swav THEN {IF EncoderTrained(c) THEN "slow_enc" ELSE "enc"} ELSE {})

\* the SlowUpdaters that are constructed, each with its source and destination
UpdaterNames(c) ==
    {"critic_updater"}
    \cup (IF c.swav THEN {"proj_updater"} ELSE {})
    \cup (IF c.swav /\ EncoderTrained(c) THEN {"encoder_updater"} ELSE {})

UpdaterSrc(u) ==
    IF u = "encoder_updater" THEN "enc"
    ELSE IF u = "proj_updater" THEN "obs_proj" ELSE "net"

UpdaterDst(u) ==
    IF u = "encoder_updater" THEN "slow_enc"
    ELSE IF u = "proj_updater" THEN "ema_proj" ELSE "slow"

\* what a module's entries in the parameter store are: the projections are one
\* R2Conv each under rssm.equiv, everything else is a tree of arrays
ModuleKind(k, c) ==
    IF c.equiv /\ k \in {"obs_proj", "ema_proj"} THEN "r2conv" ELSE "array"

\* fast modules and slow copies are initialised from different keys
InitParams(c) ==
    [k \in ModuleNames(c) |-> IF k \in SlowNames THEN Val(0) ELSE Val(8)]

----------------------------------------------------------------------------
(* SlowUpdater and polyak_averaging (jaxutils.py:533-570).                 *)

\* faulty variant: the first call is not forced to a full copy
MixNoInit(n, fraction, period) ==
    [num |-> IF n % period = 0 THEN fraction.num ELSE 0, den |-> fraction.den]

\* mix = clip(1.0 * need_init + fraction * need_update, 0, 1), as num/den
Mix(n, fraction, period) ==
    LET need_init == IF n = 0 THEN fraction.den ELSE 0
        need_update == IF n % period = 0 THEN fraction.num ELSE 0
        raw == need_init + need_update
    IN [num |-> IF raw < 0 THEN 0 ELSE IF raw > fraction.den THEN fraction.den ELSE raw,
        den |-> fraction.den]

\* polyak_averaging for one entry: an R2Conv has its weights and bias mixed,
\* any other EquivariantModule is passed over, a tree of arrays is mixed
PolyakAveraging(kind, s, d, mix) ==
    IF kind \in {"r2conv", "equivariant"}
    THEN IF kind = "r2conv" THEN ValMix(s, d, mix) ELSE d
    ELSE ValMix(s, d, mix)

\* SlowUpdater.__call__
SlowUpdaterCall(u) ==
    LET mix == Mix(updates[u], cfg.fraction, cfg.period)
        src == UpdaterSrc(u)
        dst == UpdaterDst(u)
    IN /\ params' = [params EXCEPT ![dst] =
                        PolyakAveraging(ModuleKind(src, cfg), params[src], @, mix)]
       /\ updates' = [updates EXCEPT ![u] = @ + 1]

----------------------------------------------------------------------------
(* One Agent.train call (agent.py:128-154): WorldModel.train, then the task *)
(* behavior's ImagActorCritic.train, which trains the actor and then its    *)
(* critic (VFunction.train).  config.expl_behavior is "None".               *)

\* WorldModel.train: modules = [rssm, *heads, encoder?, _obs_proj?]
WorldModelModules(c) ==
    {"rssm", "rew", "cont"}
    \cup (IF c.swav THEN {} ELSE {"dec"})
    \cup (IF EncoderTrained(c) THEN {"enc"} ELSE {})
    \cup (IF c.swav THEN {"obs_proj"} ELSE {})

\* ImagActorCritic.train: self.opt(self.actor, ...)
ActorModules == {"actor"}

\* faulty variant: the critic's optimizer is handed the slow critic too
CriticModulesWithSlow == {"net", "slow"}

\* VFunction.train: self.opt(self.net, ...)
CriticModules == {"net"}

\* the gradients a loss can produce: float16 compute overflows, float32 does not
Grads(c) == {FiniteGrad(1)} \cup (IF c.scaling THEN {NonFiniteGrad} ELSE {})

\* faulty variant: WorldModel.train returns without running its updaters
AfterModelOptNoUpdaters(c) == "actor_opt"

\* where WorldModel.train goes after self.opt(...)
AfterModelOpt(c) ==
    IF c.swav /\ EncoderTrained(c) THEN "encoder_updater"
    ELSE IF c.swav THEN "proj_updater"
    ELSE "actor_opt"

\* WorldModel.train: mets, (state, outs, metrics) = self.opt(modules, self.loss, ...)
ModelOpt ==
    /\ pc = "model_opt"
    /\ trains < MaxTrain
    /\ \E g \in Grads(cfg) :
          /\ GradPossible(WorldModelModules(cfg), g)
          /\ OptimizerCall("model_opt", WorldModelModules(cfg), g)
    /\ pc' = AfterModelOpt(cfg)
    /\ UNCHANGED <<cfg, updates, trains, fnVars>>

\* WorldModel.train: self._encoder_updater()
EncoderUpdater ==
    /\ pc = "encoder_updater"
    /\ SlowUpdaterCall("encoder_updater")
    /\ pc' = "proj_updater"
    /\ UNCHANGED <<cfg, opts, trains, last, fnVars>>

\* WorldModel.train: self._proj_updater()
ProjUpdater ==
    /\ pc = "proj_updater"
    /\ SlowUpdaterCall("proj_updater")
    /\ pc' = "actor_opt"
    /\ UNCHANGED <<cfg, opts, trains, last, fnVars>>

\* ImagActorCritic.train: self.opt(self.actor, loss, start, has_aux=True)
ActorOpt ==
    /\ pc = "actor_opt"
    /\ \E g \in Grads(cfg) :
          /\ GradPossible(ActorModules, g)
          /\ OptimizerCall("actor_opt", ActorModules, g)
    /\ pc' = "critic_opt"
    /\ UNCHANGED <<cfg, updates, trains, fnVars>>

\* VFunction.train: self.opt(self.net, self.loss, traj, target, has_aux=True)
CriticOpt ==
    /\ pc = "critic_opt"
    /\ \E g \in Grads(cfg) :
          /\ GradPossible(CriticModules, g)
          /\ OptimizerCall("critic_opt", CriticModules, g)
    /\ pc' = "critic_updater"
    /\ UNCHANGED <<cfg, updates, trains, fnVars>>

\* VFunction.train: self.updater(); Agent.train returns
CriticUpdater ==
    /\ pc = "critic_updater"
    /\ SlowUpdaterCall("critic_updater")
    /\ pc' = "model_opt"
    /\ trains' = trains + 1
    /\ UNCHANGED <<cfg, opts, last, fnVars>>

NoCall == [opt |-> "none", finite |-> TRUE, tick |-> 0]
NoFn == [fn |-> "none"]

Init ==
    /\ cfg \in CfgSet
    /\ pc = "model_opt"
    /\ opts = [n \in OptNames |-> OptimizerInit]
    /\ params = InitParams(cfg)
    /\ updates = [u \in UpdaterNames(cfg) |-> 0]
    /\ trains = 0
    /\ last = NoCall
    /\ fin = NoFn
    /\ fout = NoFn

Next ==
    \/ ModelOpt
    \/ EncoderUpdater
    \/ ProjUpdater
    \/ ActorOpt
    \/ CriticOpt
    \/ CriticUpdater

Spec == Init /\ [][Next]_vars

----------------------------------------------------------------------------
(* One mixed-precision Optimizer called over and over (SpecOpt): the critic *)
(* optimizer on the critic's net.                                          *)

OptCfg ==
    [scaling |-> TRUE, swav |-> FALSE, equiv |-> FALSE, encoder_cnn |-> "resnet",
     fraction |-> [num |-> 1, den |-> 2], period |-> 1]

OptInit ==
    /\ cfg = OptCfg
    /\ pc = "critic_opt"
    /\ opts = [n \in OptNames |-> OptimizerInit]
    /\ params = InitParams(cfg)
    /\ updates = [u \in UpdaterNames(cfg) |-> 0]
    /\ trains = 0
    /\ last = NoCall
    /\ fin = NoFn
    /\ fout = NoFn

\* a call with finite gradients
OptFinite ==
    /\ opts["critic_opt"].step < GoodStepsLimit + MaxExtraSteps
    /\ GradPossible(CriticModules, FiniteGrad(1))
    /\ OptimizerCall("critic_opt", CriticModules, FiniteGrad(1))
    /\ UNCHANGED <<cfg, pc, updates, trains, fnVars>>

\* a call whose gradients hold a non-finite element
OptNonFinite ==
    /\ opts["critic_opt"].step < MaxBadStep
    /\ opts["critic_opt"].notfinite_count < MaxConsecutiveErrors + MaxExtraErrors
    /\ OptimizerCall("critic_opt", CriticModules, NonFiniteGrad)
    /\ UNCHANGED <<cfg, pc, updates, trains, fnVars>>

OptNext == OptFinite \/ OptNonFinite

SpecOpt == OptInit /\ [][OptNext]_vars
----------------------------------------------------------------------------
(* Exact rationals [n, d], d > 0, in lowest terms, for returns and weights. *)

RECURSIVE Gcd(_, _)
Gcd(a, b) == IF b = 0 THEN a ELSE Gcd(b, a % b)

Abs(x) == IF x < 0 THEN -x ELSE x

RatNorm(n, d) ==
    LET g == Gcd(Abs(n), Abs(d))
        sgn == IF d < 0 THEN -1 ELSE 1
    IN [n |-> sgn * (n \div g), d |-> sgn * (d \div g)]

Rat(x) == [n |-> x, d |-> 1]
RatAdd(a, b) == RatNorm(a.n * b.d + b.n * a.d, a.d * b.d)
RatSub(a, b) == RatNorm(a.n * b.d - b.n * a.d, a.d * b.d)
RatMul(a, b) == RatNorm(a.n * b.n, a.d * b.d)
RatDiv(a, b) == RatNorm(a.n * b.d, a.d * b.n)
RatLeq(a, b) == a.n * b.d <= b.n * a.d
RatOne == Rat(1)

\* x^n
RECURSIVE RatPow(_, _)
RatPow(x, n) == IF n = 0 THEN RatOne ELSE RatMul(x, RatPow(x, n - 1))

----------------------------------------------------------------------------
(* VFunction.score (agent.py:664-677).  Sequences are 1-based: index i here *)
(* is index i - 1 of the code.                                             *)

\* longest imagined trajectory: H + 1 steps with H <= MaxH
MaxH == 3

\* discount = 1 - 1 / self.config.horizon
HorizonDiscount(horizon) == RatSub(RatOne, RatNorm(1, horizon))

\* faulty variant: disc = traj["cont"][:-1] * discount
ScoreDiscSameIndex(cont, horizon) ==
    [t \in 1..(Len(cont) - 1) |->
        RatMul(Rat(cont[t]), HorizonDiscount(horizon))]

\* disc = traj["cont"][1:] * discount
ScoreDisc(cont, horizon) ==
    [t \in 1..(Len(cont) - 1) |->
        RatMul(Rat(cont[t + 1]), HorizonDiscount(horizon))]

\* interm = rew + disc * value[1:] * (1 - self.config.return_lambda)
ScoreInterm(rew, disc, value, lambda) ==
    [t \in 1..Len(disc) |->
        RatAdd(Rat(rew[t]),
               RatMul(RatMul(disc[t], Rat(value[t + 1])), RatSub(RatOne, lambda)))]

\* vals = [value[-1]]; for t in reversed(range(len(disc))): vals.append(...)
\* ScoreVals(.., t) is vals after the iterations t, t + 1, .., len(disc)
RECURSIVE ScoreVals(_, _, _, _, _)
ScoreVals(interm, disc, value, lambda, t) ==
    IF t > Len(disc) THEN <<Rat(value[Len(value)])>>
    ELSE LET vals == ScoreVals(interm, disc, value, lambda, t + 1)
         IN Append(vals,
                   RatAdd(interm[t], RatMul(RatMul(disc[t], lambda), vals[Len(vals)])))

Reversed(q) == [i \in 1..Len(q) |-> q[Len(q) + 1 - i]]

\* faulty variant: the base case is returned too
ScoreRetAll(vals) == Reversed(vals)

\* ret = jnp.stack(list(reversed(vals))[:-1])
ScoreRet(vals) == SubSeq(Reversed(vals), 1, Len(vals) - 1)

\* VFunction.score: returns rew, ret, value[:-1]; disc is kept beside them
Score(rew, cont, value, horizon, lambda) ==
    LET disc == ScoreDisc(cont, horizon)
        interm == ScoreInterm(rew, disc, value, lambda)
        vals == ScoreVals(interm, disc, value, lambda, 1)
    IN [fn |-> "score", rew |-> rew, ret |-> ScoreRet(vals),
        base |-> SubSeq(value, 1, Len(value) - 1), disc |-> disc]

\* trajectories of H + 1 steps: H rewards (rewfn gives one per step but the
\* first, line 666), H + 1 continuation flags and H + 1 critic values
Lambdas == {[n |-> 0, d |-> 1], [n |-> 1, d |-> 2], [n |-> 1, d |-> 1]}
Horizons == {2, 4}

ScoreInputs ==
    UNION {[fn : {"score"}, H : {h}, rew : [1..h -> 0..1], cont : [1..(h + 1) -> 0..1],
            value : [1..(h + 1) -> {0, 2}], horizon : Horizons, lambda : Lambdas]
           : h \in 1..MaxH}

IdleTrain ==
    /\ cfg = OptCfg
    /\ pc = "none"
    /\ opts = [n \in OptNames |-> OptimizerInit]
    /\ params = InitParams(cfg)
    /\ updates = [u \in UpdaterNames(cfg) |-> 0]
    /\ trains = 0
    /\ last = NoCall

ScoreInit ==
    /\ IdleTrain
    /\ fin \in ScoreInputs
    /\ fout = NoFn

ScoreCall ==
    /\ fin.fn = "score"
    /\ fout = NoFn
    /\ fout' = Score(fin.rew, fin.cont, fin.value, fin.horizon, fin.lambda)
    /\ UNCHANGED <<trainVars, fin>>

SpecScore == ScoreInit /\ [][ScoreCall]_vars
----------------------------------------------------------------------------
(* WorldModel.imagine (agent.py:424-441) over jaxutils.scan (jaxutils.py:   *)
(* 83-97).  The networks are small functions on a two-valued latent state;  *)
(* what each call draws from nj.rng() is the input noise.                   *)

\* RSSM.img_step(prev, action): the prior's next latent state; z is its sample
ImgStep(prev, action, z) ==
    LET deter == (prev.deter + prev.stoch + action) % 2
    IN [deter |-> deter, stoch |-> (deter + z) % 2]

\* policy(state): the actor's sampled action; z is its sample
Policy(state, z) == (state.stoch + z) % 2

\* self.heads["cont"](traj).mode() for one state
ContHead(state) == IF state.deter = 1 /\ state.stoch = 1 THEN 0 ELSE 1

\* the keys of self.rssm.initial(1)
LatentKeys(x) == [deter |-> x.deter, stoch |-> x.stoch]

\* step(prev, _): prev.pop("action"), img_step, policy of the new state
ImagineStep(prev, index, noise) ==
    LET state == ImgStep(LatentKeys(prev), prev.action, noise.prior[index])
    IN [deter |-> state.deter, stoch |-> state.stoch,
        action |-> Policy(state, noise.act[index + 1])]

\* jaxutils.scan, unrolled: carry = start; for index in range(length):
\* carry, out = fn2(carry, inputs[index]); outs.append(out)
RECURSIVE Scan(_, _, _, _)
Scan(carry, index, length, noise) ==
    IF index > length THEN <<>>
    ELSE LET out == ImagineStep(carry, index, noise)
         IN <<out>> \o Scan(out, index + 1, length, noise)

\* jnp.cumprod(x, 0)
RECURSIVE CumProd(_, _)
CumProd(x, t) ==
    IF t = 1 THEN x[1] ELSE RatMul(CumProd(x, t - 1), x[t])

\* faulty variant: the cumulative product is not divided by the discount
ImagineWeightNoDivide(cont, horizon) ==
    LET x == [t \in 1..Len(cont) |-> RatMul(HorizonDiscount(horizon), Rat(cont[t]))]
    IN [t \in 1..Len(cont) |-> CumProd(x, t)]

\* traj["weight"] = jnp.cumprod(discount * traj["cont"], 0) / discount
ImagineWeight(cont, horizon) ==
    LET x == [t \in 1..Len(cont) |-> RatMul(HorizonDiscount(horizon), Rat(cont[t]))]
    IN [t \in 1..Len(cont) |-> RatDiv(CumProd(x, t), HorizonDiscount(horizon))]

\* faulty variant: the head's prediction is kept for the start step too
ImagineContAllPredicted(first_cont, states) ==
    [t \in 1..Len(states) |-> ContHead(states[t])]

\* traj["cont"] = jnp.concatenate([first_cont[None], cont[1:]], 0)
ImagineCont(first_cont, states) ==
    <<first_cont>> \o [t \in 1..(Len(states) - 1) |-> ContHead(states[t + 1])]

\* faulty variant: the start step is not prepended to the scanned steps
ImagineWithoutStart(start, H, noise, horizon) ==
    LET first_cont == 1 - start.is_terminal
        start0 == [deter |-> start.deter, stoch |-> start.stoch,
                   action |-> Policy(LatentKeys(start), noise.act[1])]
        traj == Scan(start0, 1, H, noise)
        cont == ImagineCont(first_cont, traj)
    IN [fn |-> "imagine",
        deter |-> [t \in 1..Len(traj) |-> traj[t].deter],
        stoch |-> [t \in 1..Len(traj) |-> traj[t].stoch],
        action |-> [t \in 1..Len(traj) |-> traj[t].action],
        cont |-> cont,
        weight |-> ImagineWeight(cont, horizon)]

\* WorldModel.imagine(policy, start, horizon)
Imagine(start, H, noise, horizon) ==
    LET first_cont == 1 - start.is_terminal
        start0 == [deter |-> start.deter, stoch |-> start.stoch,
                   action |-> Policy(LatentKeys(start), noise.act[1])]
        traj == <<start0>> \o Scan(start0, 1, H, noise)
        cont == ImagineCont(first_cont, traj)
    IN [fn |-> "imagine",
        deter |-> [t \in 1..Len(traj) |-> traj[t].deter],
        stoch |-> [t \in 1..Len(traj) |-> traj[t].stoch],
        action |-> [t \in 1..Len(traj) |-> traj[t].action],
        cont |-> cont,
        weight |-> ImagineWeight(cont, horizon)]

\* start states (a posterior with its is_terminal flag), horizons and noise
ImagineInputs ==
    UNION {[fn : {"imagine"}, H : {h},
            start : [deter : 0..1, stoch : 0..1, is_terminal : 0..1],
            noise : [prior : [1..h -> 0..1], act : [1..(h + 1) -> 0..1]],
            horizon : Horizons]
           : h \in 1..MaxH}

ImagineInit ==
    /\ IdleTrain
    /\ fin \in ImagineInputs
    /\ fout = NoFn

ImagineCall ==
    /\ fin.fn = "imagine"
    /\ fout = NoFn
    /\ fout' = Imagine(fin.start, fin.H, fin.noise, fin.horizon)
    /\ UNCHANGED <<trainVars, fin>>

SpecImagine == ImagineInit /\ [][ImagineCall]_vars
----------------------------------------------------------------------------
(* jaxutils.scan (jaxutils.py:83-97), both paths, over a carry that is a    *)
(* dict of two leaves and inputs that are a dict of two stacked arrays.     *)

\* longest inputs handed to scan
MaxScanLen == 3

\* fn(carry, inp): "mix" keeps the carry's keys and depends on the order of
\* the steps; "drop" returns a tree without the key b
ScanFn(kind, carry, inp) ==
    IF kind = "mix"
    THEN [a |-> (carry.b + inp.x) % 3, b |-> (carry.a + 2 * carry.b + inp.y + 1) % 3]
    ELSE [a |-> (carry.a + inp.x) % 3]

\* jax.tree_util.tree_structure of a dict: its keys
TreeDef(tree) == DOMAIN tree

\* jax.tree_util.tree_flatten of a dict: the leaves in the order of the sorted keys
TreeFlatten(tree) == IF "b" \in DOMAIN tree THEN <<tree.a, tree.b>> ELSE <<tree.a>>

\* length = len(jax.tree_util.tree_leaves(inputs)[0])
ScanLength(inputs) == Len(inputs.x)

\* tree_map(lambda x: x[index], inputs)
TreeIndex(inputs, index) == [x |-> inputs.x[index], y |-> inputs.y[index]]

\* the result of a scan that raised
ScanRaised(error) == [raised |-> error, a |-> <<>>, b |-> <<>>]

\* faulty variant: every step starts from start, the carry is not threaded
RECURSIVE ScanLoopNoCarry(_, _, _, _, _, _)
ScanLoopNoCarry(kind, inputs, carrydef, carry, index, outs) ==
    IF index > ScanLength(inputs) THEN [raised |-> "none", outs |-> outs]
    ELSE LET out == ScanFn(kind, carry, TreeIndex(inputs, index))
         IN IF TreeDef(out) # carrydef
            THEN [raised |-> "AssertionError", outs |-> <<>>]
            ELSE ScanLoopNoCarry(kind, inputs, carrydef, carry, index + 1,
                                 Append(outs, TreeFlatten(out)))

\* for index in range(length): carry, out = fn2(carry, inputs[index]);
\* assert treedef == carrydef; outs.append(flat)
RECURSIVE ScanLoop(_, _, _, _, _, _)
ScanLoop(kind, inputs, carrydef, carry, index, outs) ==
    IF index > ScanLength(inputs) THEN [raised |-> "none", outs |-> outs]
    ELSE LET out == ScanFn(kind, carry, TreeIndex(inputs, index))
         IN IF TreeDef(out) # carrydef
            THEN [raised |-> "AssertionError", outs |-> <<>>]
            ELSE ScanLoop(kind, inputs, carrydef, out, index + 1,
                          Append(outs, TreeFlatten(out)))

\* outs = [jnp.stack([carry[i] for carry in outs], 0) for i in range(len(outs[0]))]
\* return carrydef.unflatten(outs)
ScanStack(outs) ==
    LET stacked == [i \in 1..Len(outs[1]) |-> [t \in 1..Len(outs) |-> outs[t][i]]]
    IN [raised |-> "none", a |-> stacked[1], b |-> stacked[2]]

\* scan(fn, inputs, start, unroll=True)
ScanUnrolled(kind, inputs, start) ==
    LET loop == ScanLoop(kind, inputs, TreeDef(start), start, 1, <<>>)
    IN IF loop.raised # "none" THEN ScanRaised(loop.raised) ELSE ScanStack(loop.outs)

\* nj.scan(fn2, start, inputs)[1]: the scan primitive walks the inputs from
\* index 0, threads the carry and stacks the second results leaf by leaf; a
\* step whose carry changes its tree structure is rejected with a TypeError
RECURSIVE NjScanYs(_, _, _, _)
NjScanYs(kind, inputs, carry, index) ==
    IF index > ScanLength(inputs) THEN [a |-> <<>>, b |-> <<>>]
    ELSE LET y == ScanFn(kind, carry, TreeIndex(inputs, index))
             rest == NjScanYs(kind, inputs, y, index + 1)
         IN [a |-> <<y.a>> \o rest.a, b |-> <<y.b>> \o rest.b]

NjScan(kind, inputs, start) ==
    IF TreeDef(ScanFn(kind, start, TreeIndex(inputs, 1))) # TreeDef(start)
    THEN ScanRaised("TypeError")
    ELSE LET ys == NjScanYs(kind, inputs, start, 1)
         IN [raised |-> "none", a |-> ys.a, b |-> ys.b]

\* jaxutils.scan(fn, inputs, start, unroll)
JaxutilsScan(kind, inputs, start, unroll) ==
    IF ~unroll THEN NjScan(kind, inputs, start) ELSE ScanUnrolled(kind, inputs, start)

\* step functions, inputs of 1..MaxScanLen steps, start carries, unroll flag
ScanInputs ==
    UNION {[fn : {"scan"}, kind : {"mix", "drop"}, unroll : BOOLEAN,
            inputs : [x : [1..n -> 0..1], y : [1..n -> 0..1]],
            start : [a : 0..2, b : 0..2]]
           : n \in 1..MaxScanLen}

ScanInit ==
    /\ IdleTrain
    /\ fin \in ScanInputs
    /\ fout = NoFn

ScanCall ==
    /\ fin.fn = "scan"
    /\ fout = NoFn
    /\ fout' = [fn |-> "scan",
                out |-> JaxutilsScan(fin.kind, fin.inputs, fin.start, fin.unroll)]
    /\ UNCHANGED <<trainVars, fin>>

SpecScan == ScanInit /\ [][ScanCall]_vars
----------------------------------------------------------------------------
(* Agent.policy (agent.py:102-126) and the recurrent state of a training    *)
(* call (Agent.train agent.py:128-154, WorldModel.loss agent.py:380-422,    *)
(* train_step train.py:94-102), for one example of the batch.  The RSSM and *)
(* the actor are small functions; z is what a call draws from nj.rng().     *)

\* longest training sequence of a batch
MaxBatchLen == 2

\* RSSM.initial(batch_size), for one example
RssmInitial == [deter |-> 0, stoch |-> 0]

\* RSSM.obs_step(prev_latent, prev_action, embed, is_first): where is_first is
\* set the previous latent and action are replaced by the initial latent and
\* the zero action; the prior is the recurrent step, the posterior sees embed
ObsStep(prev_latent, prev_action, embed, is_first, z) ==
    LET latent == IF is_first THEN RssmInitial ELSE prev_latent
        action == IF is_first THEN 0 ELSE prev_action
        prior == ImgStep(latent, action, z)
    IN [post |-> [deter |-> prior.deter, stoch |-> (prior.deter + embed + z) % 2],
        prior |-> prior]

\* RSSM.observe(embed, actions, is_first, initial_latent): obs_step along time,
\* each step from the posterior of the step before
RECURSIVE Observe(_, _, _, _, _, _)
Observe(embed, actions, is_first, latent, z, t) ==
    IF t > Len(embed) THEN [post |-> <<>>, prior |-> <<>>]
    ELSE LET out == ObsStep(latent, actions[t], embed[t], is_first[t], z[t])
             rest == Observe(embed, actions, is_first, out.post, z, t + 1)
         IN [post |-> <<out.post>> \o rest.post, prior |-> <<out.prior>> \o rest.prior]

\* self.wm.encoder(obs)
Encoder(image) == image

\* the actor's action distribution for a latent, as the number of halves of
\* probability on action 1; the exploration behaviour has its own actor
Actor(behavior, latent) ==
    IF behavior = "Explore" THEN 2 - (latent.deter + latent.stoch)
    ELSE latent.deter + latent.stoch

\* dist.sample(seed=nj.rng()) and dist.entropy() in units of log 2
DistSample(dist, z) == IF dist = 1 THEN z ELSE dist \div 2
DistEntropy(dist) == IF dist = 1 THEN 1 ELSE 0

\* ImagActorCritic.policy(state, carry)
BehaviorPolicy(behavior, latent, carry) ==
    [outs |-> [action |-> Actor(behavior, latent)], carry |-> carry]

\* Agent.policy_initial, WorldModel.initial
WmInitial == [latent |-> RssmInitial, action |-> 0]
PolicyInitial == [latent |-> RssmInitial, action |-> 0, task_state |-> <<>>, expl_state |-> <<>>]

\* config.expl_behavior == "None": self.expl_behavior = self.task_behavior
ExplBehavior(expl) == IF expl = "None" THEN "Greedy" ELSE expl

\* outs and the new carry of Agent.policy, from the latent and the two outs
PolicyOuts(mode, latent, task, expl, z) ==
    LET dist == IF mode = "explore" THEN expl.outs.action ELSE task.outs.action
        outs == [action |-> DistSample(dist, z),
                 log_entropy |-> IF mode = "eval" THEN 0 ELSE DistEntropy(dist)]
    IN [outs |-> outs,
        state |-> [latent |-> latent, action |-> outs.action,
                   task_state |-> task.carry, expl_state |-> expl.carry]]

\* faulty variant: is_first is not handed to obs_step
AgentPolicyIgnoresFirst(obs, state, mode, expl, z) ==
    LET latent == ObsStep([deter |-> state.latent.deter, stoch |-> state.latent.stoch],
                          state.action, Encoder(obs.image), FALSE, z.step).post
    IN PolicyOuts(mode, latent,
                  BehaviorPolicy("Greedy", latent, state.task_state),
                  BehaviorPolicy(ExplBehavior(expl), latent, state.expl_state), z.act)

\* faulty variant: the carry always takes the task behaviour's action
AgentPolicyCarriesTask(obs, state, mode, expl, z) ==
    LET latent == ObsStep(state.latent, state.action, Encoder(obs.image),
                          obs.is_first, z.step).post
        task == BehaviorPolicy("Greedy", latent, state.task_state)
        out == PolicyOuts(mode, latent, task,
                          BehaviorPolicy(ExplBehavior(expl), latent, state.expl_state), z.act)
    IN [outs |-> out.outs,
        state |-> [out.state EXCEPT !.action = DistSample(task.outs.action, z.act)]]

\* Agent.policy(obs, state, mode)
AgentPolicy(obs, state, mode, expl, z) ==
    LET latent == ObsStep(state.latent, state.action, Encoder(obs.image),
                          obs.is_first, z.step).post
    IN PolicyOuts(mode, latent,
                  BehaviorPolicy("Greedy", latent, state.task_state),
                  BehaviorPolicy(ExplBehavior(expl), latent, state.expl_state), z.act)

\* faulty variant: observe is fed data["action"] without the shift by one step
WmLossActionsNotShifted(data, state, z) ==
    LET T == Len(data.action)
        embed == [t \in 1..T |-> Encoder(data.image[t])]
        prev_actions == data.action
        obs == Observe(embed, prev_actions, data.is_first, state.latent, z, 1)
    IN [state |-> [latent |-> obs.post[T], action |-> data.action[T]],
        post |-> obs.post, prior |-> obs.prior, prev_actions |-> prev_actions]

\* WorldModel.loss(data, state): prev_actions, observe, and the state it returns
WmLoss(data, state, z) ==
    LET T == Len(data.action)
        embed == [t \in 1..T |-> Encoder(data.image[t])]
        prev_actions == <<state.action>> \o SubSeq(data.action, 1, T - 1)
        obs == Observe(embed, prev_actions, data.is_first, state.latent, z, 1)
    IN [state |-> [latent |-> obs.post[T], action |-> data.action[T]],
        post |-> obs.post, prior |-> obs.prior, prev_actions |-> prev_actions]

\* preprocess(data, swav=True): the batch twice, the images translated by one
\* random delta per example
Preprocess(data, swav, delta) ==
    IF swav
    THEN [i \in 1..2 |-> [data EXCEPT !.image = [t \in 1..Len(data.image) |->
                                                   (data.image[t] + delta[i]) % 2]]]
    ELSE <<data>>

\* faulty variant: under swav the doubled state is handed back whole
AgentTrainNoSplit(data, state, swav, z, delta) ==
    LET batch == Preprocess(data, swav, delta)
        outs == [i \in 1..Len(batch) |-> WmLoss(batch[i], state, z)]
    IN [state |-> outs[1].state, batch_size |-> Len(batch), returned_size |-> Len(batch),
        post |-> outs[1].post, prior |-> outs[1].prior,
        prev_actions |-> outs[1].prev_actions, data |-> batch[1]]

\* Agent.train(data, state): the state path through self.wm.train; with swav
\* the state is doubled like the data and the first half is handed back
AgentTrain(data, state, swav, z, delta) ==
    LET batch == Preprocess(data, swav, delta)
        states == [i \in 1..Len(batch) |-> state]
        outs == [i \in 1..Len(batch) |-> WmLoss(batch[i], states[i], z)]
        half == IF swav THEN Len(batch) \div 2 ELSE Len(batch)
    IN [state |-> outs[1].state, batch_size |-> Len(batch), returned_size |-> half,
        post |-> outs[1].post, prior |-> outs[1].prior,
        prev_actions |-> outs[1].prev_actions, data |-> batch[1]]

\* batches of one example with 1..MaxBatchLen steps
Batches ==
    UNION {[action : [1..T -> 0..1], image : [1..T -> 0..1], is_first : [1..T -> BOOLEAN]]
           : T \in 1..MaxBatchLen}

\* the entry point that is exercised with its configuration: the driver's
\* policy calls, or train_step on the batch the dataset yields, with what the
\* training call draws from nj.rng()
AgentInputs ==
    [fn : {"policy"}, expl : {"None", "Explore"}]
    \cup UNION {[fn : {"train"}, swav : {FALSE}, data : {data},
                 z : [1..Len(data.action) -> 0..1], delta : {[i \in 1..2 |-> 0]}]
                \cup [fn : {"train"}, swav : {TRUE}, data : {data},
                      z : [1..Len(data.action) -> 0..1], delta : [1..2 -> 0..1]]
                : data \in Batches}

\* after construction: the driver holds policy_initial, train_step's state is
\* train_initial
AgentInit ==
    /\ IdleTrain
    /\ fin \in AgentInputs
    /\ fout = [fn |-> "initial",
               state |-> IF fin.fn = "policy" THEN PolicyInitial ELSE WmInitial]

\* one driver step: agent.policy on the observation with the carried state
PolicyCall ==
    /\ fin.fn = "policy"
    /\ \E mode \in {"train", "explore", "eval"},
          obs \in [image : 0..1, is_first : BOOLEAN],
          z \in [step : 0..1, act : 0..1] :
          LET r == AgentPolicy(obs, fout.state, mode, fin.expl, z)
          IN fout' = [fn |-> "policy", mode |-> mode, obs |-> obs, z |-> z,
                      passed |-> fout.state, outs |-> r.outs, state |-> r.state]
    /\ UNCHANGED <<trainVars, fin>>

\* one pass of train_step's loop: outs, state[0], mets = agent.train(batch[0], state[0])
TrainStep ==
    /\ fin.fn = "train"
    /\ LET r == AgentTrain(fin.data, fout.state, fin.swav, fin.z, fin.delta)
       IN fout' = [fn |-> "train", passed |-> fout.state,
                   data |-> r.data, post |-> r.post, prior |-> r.prior,
                   prev_actions |-> r.prev_actions, batch_size |-> r.batch_size,
                   returned_size |-> r.returned_size, state |-> r.state]
    /\ UNCHANGED <<trainVars, fin>>

AgentNext == PolicyCall \/ TrainStep

SpecAgent == AgentInit /\ [][AgentNext]_vars
----------------------------------------------------------------------------
(* OneHotDist.sample (jaxutils.py:117-120).  Probabilities are multiples of *)
(* 1/ProbUnits, a float is a value in those units or NaN, and the seed is    *)
(* the uniform draw the categorical sample is cut from.                     *)

\* number of classes of the distribution
MaxClasses == 3
\* probabilities are k / ProbUnits
ProbUnits == 4

\* x - y in floats
ValSub(x, y) == IF x.nan \/ y.nan THEN NaN ELSE Val(x.v - y.v)

\* sg = jax.lax.stop_gradient: the value passes unchanged
Sg(x) == x

\* super().sample(sample_shape, seed): the one-hot vector of the first class
\* whose cumulative probability exceeds the draw u
RECURSIVE CumSum(_, _)
CumSum(p, k) == IF k = 0 THEN 0 ELSE p[k] + CumSum(p, k - 1)

CategoricalSample(probs, u) ==
    LET hot == CHOOSE k \in 1..Len(probs) :
                  CumSum(probs, k) > u /\ \A j \in 1..(k - 1) : CumSum(probs, j) <= u
    IN [i \in 1..Len(probs) |-> Val(IF i = hot THEN ProbUnits ELSE 0)]

\* faulty variant: the probabilities are added without taking them off again
OneHotSampleAddsProbs(probs, u) ==
    LET sample == Sg(CategoricalSample(probs, u))
    IN [i \in 1..Len(probs) |-> ValAdd(Sg(sample[i]), Val(probs[i]))]

\* OneHotDist.sample: sg(sample) + (probs - sg(probs)).astype(sample.dtype)
OneHotSample(probs, u) ==
    LET sample == Sg(CategoricalSample(probs, u))
    IN [i \in 1..Len(probs) |->
           ValAdd(Sg(sample[i]), ValSub(Val(probs[i]), Sg(Val(probs[i]))))]

\* probability vectors over MaxClasses classes and the draws of the seed
SampleInit ==
    /\ IdleTrain
    /\ fin \in [fn : {"sample"}, u : 0..(ProbUnits - 1),
                probs : {p \in [1..MaxClasses -> 0..ProbUnits] :
                            CumSum(p, MaxClasses) = ProbUnits}]
    /\ fout = NoFn

SampleCall ==
    /\ fin.fn = "sample"
    /\ fout = NoFn
    /\ fout' = [fn |-> "sample", value |-> OneHotSample(fin.probs, fin.u)]
    /\ UNCHANGED <<trainVars, fin>>

SpecSample == SampleInit /\ [][SampleCall]_vars
----------------------------------------------------------------------------
(* The Optimizer's state as the checkpoint sees it: what __init__ declares   *)
(* as nj.Variable and what __call__ keeps with self.put is stored under the  *)
(* optimizer's path, saved and loaded with it; a variable that is missing    *)
(* from a loaded state starts from its initial value.  SpecOptTwin runs the  *)
(* critic optimizer next to a twin that was loaded from its saved state.     *)

\* faulty variant: good_steps is a plain attribute and is not saved
OptimizerVariablesNoGoodSteps(scaling) ==
    {"step", "state"} \cup (IF scaling THEN {"grad_scale"} ELSE {})

\* the state entries of an Optimizer: step, the optax state, and under
\* scaling grad_scale and good_steps
OptimizerVariables(scaling) ==
    {"step", "state"} \cup (IF scaling THEN {"grad_scale", "good_steps"} ELSE {})

\* saving: the entries by name; the count of apply_if_finite is inside "state"
OptimizerSave(o, scaling) ==
    [k \in OptimizerVariables(scaling) |->
        CASE k = "step" -> [int32 |-> o.step]
          [] k = "state" -> [notfinite_count |-> o.notfinite_count]
          [] k = "grad_scale" -> [float16 |-> o.grad_scale]
          [] k = "good_steps" -> [int32 |-> o.good_steps]]

\* loading: every variable reads its entry, or its initial value without one
OptimizerLoad(s) ==
    [step |-> IF "step" \in DOMAIN s THEN s["step"].int32 ELSE OptimizerInit.step,
     grad_scale |-> IF "grad_scale" \in DOMAIN s THEN s["grad_scale"].float16
                    ELSE OptimizerInit.grad_scale,
     good_steps |-> IF "good_steps" \in DOMAIN s THEN s["good_steps"].int32
                    ELSE OptimizerInit.good_steps,
     notfinite_count |-> IF "state" \in DOMAIN s THEN s["state"].notfinite_count
                         ELSE OptimizerInit.notfinite_count]

\* the metrics of a call, from the variables after it
OptimizerMetrics(o, finite) ==
    [grad_scale |-> o.grad_scale, grad_overflow |-> ~finite, grad_steps |-> o.step]

NoTwin ==
    [fn |-> "twin", loaded |-> FALSE, midway |-> FALSE, opt |-> OptimizerInit,
     params |-> InitParams(OptCfg), metrics |-> OptimizerMetrics(OptimizerInit, TRUE)]

TwinInit ==
    /\ IdleTrain
    /\ fin = NoFn
    /\ fout = NoTwin

\* the critic optimizer and its parameters are saved and loaded into the twin
TwinSaveLoad ==
    /\ ~fout.loaded
    /\ fout' = [fout EXCEPT
                  !.loaded = TRUE,
                  !.midway = opts["critic_opt"].good_steps > 0
                             \/ opts["critic_opt"].notfinite_count > 0,
                  !.opt = OptimizerLoad(OptimizerSave(opts["critic_opt"], cfg.scaling)),
                  !.params = params]
    /\ UNCHANGED <<trainVars, fin>>

\* both optimizers are called with the same gradients: finite ones, or
\* non-finite ones within the bounds of SpecOpt
TwinCall ==
    /\ \E g \in {FiniteGrad(1), NonFiniteGrad} :
          /\ g.finite => opts["critic_opt"].step < GoodStepsLimit + MaxExtraSteps
          /\ ~g.finite =>
                /\ opts["critic_opt"].step < MaxBadStep
                /\ opts["critic_opt"].notfinite_count < MaxConsecutiveErrors + MaxExtraErrors
          /\ GradPossible(CriticModules, g)
          /\ OptimizerCall("critic_opt", CriticModules, g)
          /\ fout' = IF ~fout.loaded THEN fout
                     ELSE LET o == OptimizerState(fout.opt, g, cfg.scaling)
                          IN [fout EXCEPT
                                !.opt = o,
                                !.params = ApplyUpdates(fout.params, CriticModules,
                                                        OptUpdate(fout.opt, g, cfg.scaling)),
                                !.metrics = OptimizerMetrics(o, g.finite)]
    /\ UNCHANGED <<cfg, pc, updates, trains, fin>>

TwinNext == TwinSaveLoad \/ TwinCall

SpecOptTwin == TwinInit /\ [][TwinNext]_vars
----------------------------------------------------------------------------
(* Construction and configuration dispatch: Agent.__init__ (agent.py:37-90) *)
(* and the branches that pick an implementation by a configured name.  A    *)
(* result names the exception that left the call, or "none".                *)

\* tasks config.rssm.equiv is asserted to support, and their group helper
EquivTasks ==
    {"dmc_cartpole_swingup", "dmc_acrobot_swingup", "dmc_reacher_easy",
     "dmc_reacher_hard", "dmc_cup_catch", "dmc_pendulum_swingup"}

\* faulty variant: the decoder/swav check comes after the world model is built
AgentConstructChecksLate(c) ==
    IF c.equiv /\ c.task \notin EquivTasks
    THEN [raised |-> "AssertionError", built |-> <<>>]
    ELSE LET grp == IF c.equiv THEN <<"grp">> ELSE <<>>
         IN IF c.mlp_keys = "embed" /\ c.swav
            THEN [raised |-> "ValueError", built |-> grp \o <<"wm">>]
            ELSE [raised |-> "none", built |-> grp \o <<"wm", "task_behavior">>]

\* Agent.__init__: the assert on the task under equiv, the group helper, the
\* decoder/swav check, then the world model and the behaviours
AgentConstruct(c) ==
    IF c.equiv /\ c.task \notin EquivTasks
    THEN [raised |-> "AssertionError", built |-> <<>>]
    ELSE LET grp == IF c.equiv THEN <<"grp">> ELSE <<>>
         IN IF c.mlp_keys = "embed" /\ c.swav
            THEN [raised |-> "ValueError", built |-> grp]
            ELSE [raised |-> "none",
                  built |-> grp \o <<"wm", "task_behavior">>
                            \o (IF c.expl = "None" THEN <<>> ELSE <<"expl_behavior">>)]

\* faulty variant: an unknown name falls through to the first implementation
VariantNoElse(component, name) == "none"

\* the exception a configured name ends in: Moments.__init__ (impl),
\* Optimizer.__init__ (opt), MSEDist.log_prob (agg), SymlogDist.log_prob
\* (dist, agg), VFunction.loss (critic_slowreg)
Variant(component, name) ==
    CASE component = "moments_impl" ->
            IF name \in {"off", "mean_std", "min_max", "perc_ema", "perc_ema_corr",
                         "mean_mag", "max_mag"}
            THEN "none" ELSE "NotImplementedError"
      [] component = "optimizer_opt" ->
            IF name \notin {"adam", "belief", "yogi"} THEN "AssertionError"
            ELSE IF name = "adam" THEN "none" ELSE "NotImplementedError"
      [] component = "mse_agg" ->
            IF name \in {"mean", "sum", "cosine"} THEN "none" ELSE "NotImplementedError"
      [] component = "symlog_dist" ->
            IF name \in {"mse", "abs"} THEN "none" ELSE "NotImplementedError"
      [] component = "symlog_agg" ->
            IF name \in {"mean", "sum"} THEN "none" ELSE "NotImplementedError"
      [] component = "critic_slowreg" ->
            IF name \in {"logprob", "xent"} THEN "none" ELSE "NotImplementedError"

\* configurations of the agent, and configured names, known and unknown
ConfigInputs ==
    [fn : {"agent"}, equiv : BOOLEAN, swav : BOOLEAN, mlp_keys : {"embed", ".*", "$^"},
     task : EquivTasks \cup {"dmc_walker_walk"}, expl : {"None", "Explore"}]
    \cup [fn : {"variant"},
          component : {"moments_impl", "optimizer_opt", "mse_agg", "symlog_dist",
                       "symlog_agg", "critic_slowreg"},
          name : {"off", "mean_std", "min_max", "perc_ema", "perc_ema_corr", "mean_mag",
                  "max_mag", "adam", "belief", "yogi", "mean", "sum", "cosine", "mse",
                  "abs", "logprob", "xent", "median", "sgd"}]

ConfigInit ==
    /\ IdleTrain
    /\ fin \in ConfigInputs
    /\ fout = NoFn

\* Agent(obs_space, act_space, step, config, key)
AgentConstructCall ==
    /\ fin.fn = "agent"
    /\ fout = NoFn
    /\ fout' = [fn |-> "agent", result |-> AgentConstruct(fin)]
    /\ UNCHANGED <<trainVars, fin>>

\* the constructor or method that dispatches on the configured name
VariantCall ==
    /\ fin.fn = "variant"
    /\ fout = NoFn
    /\ fout' = [fn |-> "variant", raised |-> Variant(fin.component, fin.name)]
    /\ UNCHANGED <<trainVars, fin>>

ConfigNext == AgentConstructCall \/ VariantCall

SpecConfig == ConfigInit /\ [][ConfigNext]_vars
----------------------------------------------------------------------------
(* Moments (jaxutils.py:266-377), the return normalizer of the actor loss,  *)
(* in exact rationals.  A batch is two values a <= b; its 5th and 95th      *)
(* percentiles are a + (b - a) / 20 and b - (b - a) / 20.  The square root  *)
(* of mean_std is not taken: its result carries the radicand.               *)

\* Moments calls in one behaviour
MaxMomentsCalls == 3

\* Moments.__init__: every variable of every variant starts at zero
MomentsVars ==
    [step |-> 0, mean |-> Rat(0), sqrs |-> Rat(0), low |-> Rat(0), high |-> Rat(0),
     mag |-> Rat(0)]

\* Moments.update(x) for the batch <<a, b>>
MomentsUpdate(s, c, x) ==
    LET m == c.decay
        Ema(old, new) == RatAdd(RatMul(m, old), RatMul(RatSub(RatOne, m), new))
        Min(p, q) == IF RatLeq(p, q) THEN p ELSE q
        Max(p, q) == IF RatLeq(p, q) THEN q ELSE p
        lo == Rat(x[1])
        hi == Rat(x[2])
        perlo == RatAdd(lo, RatNorm(x[2] - x[1], 20))
        perhi == RatSub(hi, RatNorm(x[2] - x[1], 20))
        absmax == Rat(IF Abs(x[1]) > Abs(x[2]) THEN Abs(x[1]) ELSE Abs(x[2]))
    IN CASE c.impl = "off" -> s
         [] c.impl = "mean_std" ->
               [s EXCEPT !.step = s.step + 1,
                         !.mean = Ema(s.mean, RatNorm(x[1] + x[2], 2)),
                         !.sqrs = Ema(s.sqrs, RatNorm(x[1] * x[1] + x[2] * x[2], 2))]
         [] c.impl = "min_max" ->
               [s EXCEPT !.low = Ema(Min(s.low, lo), lo), !.high = Ema(Max(s.high, hi), hi)]
         [] c.impl = "perc_ema" ->
               [s EXCEPT !.low = Ema(s.low, perlo), !.high = Ema(s.high, perhi)]
         [] c.impl = "perc_ema_corr" ->
               [s EXCEPT !.step = s.step + 1,
                         !.low = Ema(s.low, perlo), !.high = Ema(s.high, perhi)]
         [] c.impl = "mean_mag" ->
               [s EXCEPT !.mag = Ema(s.mag, RatNorm(Abs(x[1]) + Abs(x[2]), 2))]
         [] c.impl = "max_mag" ->
               [s EXCEPT !.mag = Ema(Max(s.mag, absmax), absmax)]

\* Moments.stats(): offset and scale; divzero marks a division by
\* corr = 1 - decay^step = 0, whose results are not numbers
MomentsStats(s, c) ==
    LET Max(p, q) == IF RatLeq(p, q) THEN q ELSE p
        floor == RatDiv(RatOne, c.max)
        corr == RatSub(RatOne, RatPow(c.decay, s.step))
        Out(offset, scale, squared) ==
            [offset |-> offset, scale |-> scale, squared |-> squared,
             divzero |-> FALSE, step |-> s.step]
    IN CASE c.impl = "off" -> Out(Rat(0), RatOne, FALSE)
         [] c.impl \in {"mean_std", "perc_ema_corr"} /\ corr.n = 0 ->
               [offset |-> Rat(0), scale |-> Rat(0), squared |-> FALSE,
                divzero |-> TRUE, step |-> s.step]
         [] c.impl = "mean_std" /\ corr.n # 0 ->
               Out(RatDiv(s.mean, corr),
                   RatAdd(Max(RatSub(RatDiv(s.sqrs, corr), RatMul(s.mean, s.mean)),
                              RatMul(floor, floor)), c.eps),
                   TRUE)
         [] c.impl \in {"min_max", "perc_ema"} ->
               Out(s.low, Max(floor, RatSub(s.high, s.low)), FALSE)
         [] c.impl = "perc_ema_corr" /\ corr.n # 0 ->
               Out(RatDiv(s.low, corr),
                   Max(floor, RatSub(RatDiv(s.high, corr), RatDiv(s.low, corr))), FALSE)
         [] c.impl \in {"mean_mag", "max_mag"} -> Out(Rat(0), Max(floor, s.mag), FALSE)

\* faulty variant: the statistics are read before the update
MomentsStatsFirst(s, c, x) ==
    [vars |-> MomentsUpdate(s, c, x), stats |-> MomentsStats(s, c)]

\* Moments.__call__(x): self.update(x); return self.stats()
Moments(s, c, x) ==
    LET updated == MomentsUpdate(s, c, x)
    IN [vars |-> updated, stats |-> MomentsStats(updated, c)]

\* a normalizer of one variant with its decay, max and eps
MomentsInit ==
    /\ IdleTrain
    /\ fin \in [fn : {"moments"},
                impl : {"off", "mean_std", "min_max", "perc_ema", "perc_ema_corr",
                        "mean_mag", "max_mag"},
                decay : {Rat(0), RatNorm(1, 2)}, max : {Rat(1), Rat(8)},
                eps : {Rat(0), RatNorm(1, 10)}]
    /\ fout = [fn |-> "moments_init", calls |-> 0, vars |-> MomentsVars]

\* offset, invscale = self.retnorms[key](ret) on the returns of a batch
MomentsCall ==
    /\ fin.fn = "moments"
    /\ fout.calls < MaxMomentsCalls
    /\ \E x \in {<<0, 0>>, <<-2, 1>>, <<1, 3>>} :
          LET r == Moments(fout.vars, fin, x)
          IN fout' = [fn |-> "moments", calls |-> fout.calls + 1, vars |-> r.vars,
                      stats |-> r.stats]
    /\ UNCHANGED <<trainVars, fin>>

SpecMoments == MomentsInit /\ [][MomentsCall]_vars
----------------------------------------------------------------------------
(* ImagActorCritic.loss (agent.py:551-574) with one critic.  A trajectory   *)
(* has H + 1 steps; steps[i] holds log_prob, entropy and weight of the code *)
(* index i - 1.                                                             *)

\* per-step policy log-probability, entropy and survival weight
StepProfiles ==
    {[logpi |-> Rat(-1), ent |-> Rat(1), weight |-> RatOne],
     [logpi |-> Rat(-2), ent |-> Rat(0), weight |-> RatNorm(1, 2)],
     [logpi |-> Rat(-3), ent |-> Rat(2), weight |-> Rat(0)]}

\* faulty variant: the weight is sliced [1:] instead of [:-1]
ActorLossWeightShifted(f) ==
    LET s == Score(f.rew, f.cont, f.value, f.horizon, f.lambda)
        adv == [t \in 1..Len(s.ret) |-> RatSub(s.ret[t], Rat(s.base[t]))]
        loss == [t \in 1..(Len(f.steps) - 1) |->
                    RatMul(RatMul(RatSub(RatSub(Rat(0), adv[t]),
                                         RatMul(f.actent, f.steps[t].ent)),
                                  f.steps[t + 1].weight), f.scale)]
    IN [fn |-> "actor_loss", ret |-> s.ret, adv |-> adv, loss |-> loss,
        mean |-> Rat(0)]

\* ImagActorCritic.loss: the per-step loss before loss.mean(), and the mean
ActorLoss(f) ==
    LET s == Score(f.rew, f.cont, f.value, f.horizon, f.lambda)
        \* normed_ret - normed_base, times scales[key] / total = 1
        adv == [t \in 1..Len(s.ret) |->
                   RatSub(RatDiv(RatSub(s.ret[t], f.offset), f.invscale),
                          RatDiv(RatSub(Rat(s.base[t]), f.offset), f.invscale))]
        \* policy.log_prob(..)[:-1], policy.entropy()[:-1], traj["weight"][:-1]
        logpi == [t \in 1..(Len(f.steps) - 1) |-> f.steps[t].logpi]
        ent == [t \in 1..(Len(f.steps) - 1) |-> f.steps[t].ent]
        weight == [t \in 1..(Len(f.steps) - 1) |-> f.steps[t].weight]
        base == [t \in 1..Len(logpi) |->
                    IF f.grad = "backprop" THEN RatSub(Rat(0), adv[t])
                    ELSE RatMul(RatSub(Rat(0), logpi[t]), adv[t])]
        loss == [t \in 1..Len(base) |->
                    RatMul(RatMul(RatSub(base[t], RatMul(f.actent, ent[t])), weight[t]),
                           f.scale)]
        RECURSIVE Total(_)
        Total(n) == IF n = 0 THEN Rat(0) ELSE RatAdd(Total(n - 1), loss[n])
    IN [fn |-> "actor_loss", ret |-> s.ret, adv |-> adv, loss |-> loss,
        mean |-> RatDiv(Total(Len(loss)), Rat(Len(loss)))]

\* an imagined trajectory of H + 1 steps, the critic's inputs, the return
\* normalizer's offset and scale, and the actor's configuration
ActorLossInit ==
    /\ IdleTrain
    /\ \E h \in 1..MaxH :
          fin \in [fn : {"actor_loss"}, H : {h}, steps : [1..(h + 1) -> StepProfiles],
                   rew : {[t \in 1..h |-> 1]}, cont : {[t \in 1..(h + 1) |-> 1]},
                   value : [1..(h + 1) -> {0, 2}], horizon : {2},
                   lambda : {RatNorm(1, 2)}, offset : {Rat(0), Rat(1)},
                   invscale : {RatOne}, grad : {"backprop", "reinforce"},
                   actent : {Rat(0), RatNorm(1, 2)}, scale : {Rat(2)}]
    /\ fout = NoFn

\* loss, metrics = self.loss(traj)
ActorLossCall ==
    /\ fin.fn = "actor_loss"
    /\ fout = NoFn
    /\ fout' = ActorLoss(fin)
    /\ UNCHANGED <<trainVars, fin>>

SpecActorLoss == ActorLossInit /\ [][ActorLossCall]_vars
----------------------------------------------------------------------------
(* The freeze of the prototypes in Optimizer.__call__ (jaxutils.py:466-482). *)
(* The gradients are a dictionary from parameter group to one float, taken  *)
(* after the division by grad_scale; NaN stands for any non-finite value.   *)

\* largest freeze, and Optimizer calls in one behaviour
MaxFreeze == 2
MaxFreezeCalls == 4

Prototypes == "agent/wm/rssm/prototypes"

\* faulty variant: the call that finds step = freeze is frozen too
FreezePrototypesInclusive(grads, step, freeze) ==
    IF Prototypes \in DOMAIN grads
    THEN [grads EXCEPT ![Prototypes] =
             IF step <= freeze THEN (IF @.nan THEN NaN ELSE Val(0)) ELSE @]
    ELSE grads

\* grads[prototypes] = cond(step < int(freeze), grads * 0.0, grads); the
\* product of a non-finite float with 0.0 is NaN
FreezePrototypes(grads, step, freeze) ==
    IF Prototypes \in DOMAIN grads
    THEN [grads EXCEPT ![Prototypes] =
             IF step < freeze THEN (IF @.nan THEN NaN ELSE Val(0)) ELSE @]
    ELSE grads

\* an Optimizer with its freeze, over modules with or without the prototypes
FreezeInit ==
    /\ IdleTrain
    /\ fin \in [fn : {"freeze"}, scaling : BOOLEAN, freeze : 0..MaxFreeze,
                groups : {{"agent/wm/rssm/kernel"},
                          {"agent/wm/rssm/kernel", Prototypes}}]
    /\ fout = [fn |-> "freeze_init", o |-> OptimizerInit, calls |-> 0]

\* Optimizer.__call__ from the scaled gradients on: _update_scale, the
\* freeze, self.opt.update and the step count from the global norm
FreezeCall ==
    /\ fin.fn = "freeze"
    /\ fout.calls < MaxFreezeCalls
    /\ \E grads \in [fin.groups -> {Val(2), Val(0), NaN}] :
          LET o == fout.o
              Finite(g) == \A k \in DOMAIN g : ~g[k].nan
              s == IF fin.scaling THEN UpdateScale(o, Finite(grads)) ELSE o
              passed == FreezePrototypes(grads, o.step, fin.freeze)
              norm == [finite |-> Finite(passed), v |-> 0]
          IN fout' = [fn |-> "freeze", calls |-> fout.calls + 1,
                      step_read |-> o.step, grads |-> grads, passed |-> passed,
                      applied |-> IF fin.scaling THEN DoUpdate(o, Finite(passed))
                                  ELSE TRUE,
                      o |-> [step |-> StepAfter(o, norm),
                             grad_scale |-> s.grad_scale,
                             good_steps |-> s.good_steps,
                             notfinite_count |->
                                IF fin.scaling THEN NotFiniteCount(o, Finite(passed))
                                ELSE o.notfinite_count]]
    /\ UNCHANGED <<trainVars, fin>>

SpecFreeze == FreezeInit /\ [][FreezeCall]_vars
----------------------------------------------------------------------------
(* The training loop (embodied/run/train.py).  Driver, replay, the clocks   *)
(* of embodied.when and the logger are collaborators: a driver call runs     *)
(* DriverSteps environment steps, each running the on_step callbacks in the *)
(* order of their registration; an episode may end at any step of a call;   *)
(* should_train and should_log may return any outcome.                      *)

\* steps of one driver call (the code passes steps=100), the largest
\* batch_steps and train_fill, the largest should_train(step), the episodes
\* of one behaviour, and args.steps
DriverSteps == 2
MaxFill == 2
MaxRepeats == 2
MaxEpisodes == 2
MaxLoopSteps == 5

\* the keys of an episode, and which of them the patterns log_keys_sum,
\* log_keys_mean and log_keys_max match
EpisodeKeys == {"reward", "log_success"}
LogKeys ==
    {[sum |-> {"reward"}, mean |-> {"log_success"}, max |-> {}],
     [sum |-> {}, mean |-> EpisodeKeys, max |-> {"log_success"}]}

\* faulty variant: train_step is registered with the other callbacks
DriverCallbacksWithTrain == <<"step.increment", "replay.add", "train_step">>

\* driver.on_step(lambda tran, _: step.increment()); driver.on_step(replay.add)
DriverCallbacks == <<"step.increment", "replay.add">>

\* faulty variant: a key that is all zero in this episode is always skipped
per_episode_skips_zeros(s, ep, args) ==
    LET taken == {k \in DOMAIN ep : args.log_zeros \/ ep[k] # 0}
    IN [s EXCEPT !.episodes = @ + 1, !.ep = ep, !.taken = taken,
                 !.nonzeros = @ \cup taken,
                 !.ever = @ \cup {k \in DOMAIN ep : ep[k] # 0},
                 !.stats = {<<"sum", k>> : k \in taken \cap args.log_keys.sum}
                           \cup {<<"mean", k>> : k \in taken \cap args.log_keys.mean}
                           \cup {<<"max", k>> : k \in taken \cap args.log_keys.max}]

\* per_episode(ep): ep[k] is 0 when (value == 0).all() and 1 otherwise; taken
\* are the keys that pass line 54; ever (not in the code) are the keys that
\* were not all zero in this or an earlier episode
per_episode(s, ep, args) ==
    LET taken == {k \in DOMAIN ep :
                     ~(~args.log_zeros /\ k \notin s.nonzeros /\ ep[k] = 0)}
    IN [s EXCEPT !.episodes = @ + 1, !.ep = ep, !.taken = taken,
                 !.nonzeros = @ \cup taken,
                 !.ever = @ \cup {k \in DOMAIN ep : ep[k] # 0},
                 !.stats = {<<"sum", k>> : k \in taken \cap args.log_keys.sum}
                           \cup {<<"mean", k>> : k \in taken \cap args.log_keys.mean}
                           \cup {<<"max", k>> : k \in taken \cap args.log_keys.max}]

\* train_step(tran, worker) with should_train(step) = n, should_log(step) = log:
\* report is the argument of agent.report ("none" when it is not called);
\* agent.report(None) fails in preprocess at obs.copy() and ends the program
train_step(s, n, log) ==
    LET batch == IF n > 0 THEN "batch" ELSE s.batch
    IN [s EXCEPT !.batch = batch,
                 !.updates = @ + n,
                 !.report = IF log THEN batch ELSE "none",
                 !.phase = IF log /\ batch = "None" THEN "failed" ELSE @]

\* train(agent, env, replay, logger, args) up to the prefill loop
LoopInit ==
    /\ IdleTrain
    /\ fin \in [fn : {"loop"}, batch_steps : 1..MaxFill, train_fill : 0..MaxFill,
                log_zeros : BOOLEAN, log_keys : LogKeys, steps : {MaxLoopSteps}]
    /\ fout = [fn |-> "loop", phase |-> "prefill", left |-> 0, policy |-> "none",
               step |-> 0, replay |-> 0, on_step |-> DriverCallbacks,
               updates |-> 0, batch |-> "None", report |-> "none",
               episodes |-> 0, ep |-> <<>>, taken |-> {}, nonzeros |-> {},
               ever |-> {}, stats |-> {}]

\* the heads of the two loops: while len(replay) < max(batch_steps,
\* train_fill): driver(init_agent.policy, ..) and while step < args.steps:
\* driver(policy, steps=100)
DriverCall ==
    /\ fin.fn = "loop" /\ fout.left = 0
    /\ \/ /\ fout.phase = "prefill"
          /\ fout.replay < (IF fin.batch_steps > fin.train_fill THEN fin.batch_steps
                            ELSE fin.train_fill)
          /\ fout' = [fout EXCEPT !.left = DriverSteps, !.policy = "init_agent"]
       \/ /\ fout.phase = "main"
          /\ fout.step < fin.steps
          /\ fout' = [fout EXCEPT !.left = DriverSteps, !.policy = "agent"]
    /\ UNCHANGED <<trainVars, fin>>

\* one environment step of a driver call: the on_step callbacks in order
DriverStep ==
    /\ fin.fn = "loop" /\ fout.left > 0
    /\ \E n \in 0..MaxRepeats, log \in BOOLEAN :
          LET Callback(cb, s) ==
                  CASE cb = "step.increment" -> [s EXCEPT !.step = @ + 1]
                    [] cb = "replay.add" -> [s EXCEPT !.replay = @ + 1]
                    [] cb = "train_step" -> train_step(s, n, log)
              RECURSIVE Run(_, _)
              Run(i, s) == IF i > Len(fout.on_step) \/ s.phase = "failed" THEN s
                           ELSE Run(i + 1, Callback(fout.on_step[i], s))
              after == Run(1, [fout EXCEPT !.report = "none"])
          IN fout' = [after EXCEPT !.left = IF after.phase = "failed" THEN 0 ELSE @ - 1]
    /\ UNCHANGED <<trainVars, fin>>

\* driver.on_episode(lambda ep, worker: per_episode(ep)) at the end of an episode
Episode ==
    /\ fin.fn = "loop" /\ fout.left > 0
    /\ fout.episodes < MaxEpisodes
    /\ \E ep \in [EpisodeKeys -> 0..1] : fout' = per_episode(fout, ep, fin)
    /\ UNCHANGED <<trainVars, fin>>

\* after the prefill loop: batch = [None]; driver.on_step(train_step); the
\* checkpoint is taken to leave the replay buffer as it is
Register ==
    /\ fin.fn = "loop" /\ fout.phase = "prefill" /\ fout.left = 0
    /\ fout.replay >= (IF fin.batch_steps > fin.train_fill THEN fin.batch_steps
                       ELSE fin.train_fill)
    /\ fout' = [fout EXCEPT !.phase = "main", !.batch = "None",
                            !.on_step = Append(@, "train_step")]
    /\ UNCHANGED <<trainVars, fin>>

\* the main loop ends when step >= args.steps
Finish ==
    /\ fin.fn = "loop" /\ fout.phase = "main" /\ fout.left = 0
    /\ fout.step >= fin.steps
    /\ fout' = [fout EXCEPT !.phase = "done"]
    /\ UNCHANGED <<trainVars, fin>>

SpecLoop ==
    LoopInit /\ [][DriverCall \/ DriverStep \/ Episode \/ Register \/ Finish]_vars
----------------------------------------------------------------------------
(* Claims.                                                                 *)

\* this step is a call of Optimizer o with non-finite / finite gradients
NonFiniteCall(o) == last'.tick # last.tick /\ last'.opt = o /\ ~last'.finite
FiniteCall(o) == last'.tick # last.tick /\ last'.opt = o /\ last'.finite

\* new is old halved, or the lower clamp when half of old is below it
HalvedOrMin(old, new) ==
    \/ ScaleTimes2(new) = old /\ ~ScaleLess(new, ScaleMin)
    \/ new = ScaleMin /\ ScaleLess(ScaleDiv2(old), ScaleMin)

\* new is old doubled, or the upper clamp when twice old is above it
DoubledOrMax(old, new) ==
    \/ ScaleDiv2(new) = old /\ ~ScaleLess(ScaleMax, new)
    \/ new = ScaleMax /\ ScaleLess(ScaleMax, ScaleTimes2(old))

\* C1 as stated: under mixed precision every Optimizer call with a non-finite
\* gradient leaves every module parameter unchanged and halves grad_scale.
C1_AsStated ==
    [][NonFiniteCall("critic_opt") =>
          /\ params' = params
          /\ ScaleTimes2(opts'["critic_opt"].grad_scale) = opts["critic_opt"].grad_scale]_vars

\* C1 amended: a call with a non-finite gradient sets grad_scale to half its
\* value, or to the lower clamp when the half is below it; it leaves every
\* parameter unchanged while it is at most the 1000th non-finite call in a row,
\* and from the 1001st on the non-finite update is applied to the modules.
C1_NonFiniteSkipsAndHalves ==
    [][NonFiniteCall("critic_opt") =>
          /\ HalvedOrMin(opts["critic_opt"].grad_scale, opts'["critic_opt"].grad_scale)
          /\ opts["critic_opt"].notfinite_count < MaxConsecutiveErrors => params' = params
          /\ opts["critic_opt"].notfinite_count >= MaxConsecutiveErrors =>
                /\ \A k \in CriticModules : params'[k].nan
                /\ \A k \in DOMAIN params \ CriticModules : params'[k] = params[k]]_vars

\* C1 witness: one non-finite call on a fresh optimizer: the scale is 5000 and
\* the parameters are the initial ones.
C1_Witness ==
    /\ last.opt = "critic_opt" /\ ~last.finite
    /\ opts["critic_opt"].notfinite_count = 1
    /\ opts["critic_opt"].grad_scale = [m |-> 625, e |-> 3]
    /\ params = InitParams(cfg)

\* C2 as stated: the 1000th consecutive call with finite gradients (counted
\* from the last non-finite gradient or the last doubling) doubles grad_scale.
C2_AsStated ==
    [][(FiniteCall("critic_opt") /\ opts["critic_opt"].good_steps = GoodStepsLimit - 1) =>
          opts'["critic_opt"].grad_scale = ScaleTimes2(opts["critic_opt"].grad_scale)]_vars

\* C2 amended: the first 1000 consecutive finite calls leave grad_scale as it
\* is; the 1001st (the call that finds good_steps = 1000) doubles it, up to the
\* clamp at 1e4, and starts the count again.
C2_DoublesOnCall1001 ==
    [][FiniteCall("critic_opt") =>
          IF opts["critic_opt"].good_steps = GoodStepsLimit
          THEN /\ DoubledOrMax(opts["critic_opt"].grad_scale,
                               opts'["critic_opt"].grad_scale)
               /\ opts'["critic_opt"].good_steps = 0
          ELSE /\ opts["critic_opt"].good_steps < GoodStepsLimit
               /\ opts'["critic_opt"].grad_scale = opts["critic_opt"].grad_scale]_vars

\* C2 witness: 1001 finite calls after the scale was driven to its lower
\* clamp: the doubling has taken effect.
C2_Witness ==
    /\ last.finite
    /\ opts["critic_opt"].step > GoodStepsLimit
    /\ opts["critic_opt"].good_steps = 0
    /\ opts["critic_opt"].grad_scale = ScaleTimes2(ScaleMin)

ScaleInRange(x) ==
    IF x.e >= 0
    THEN x.e <= 14 /\ x.m * Pow2(x.e) <= 10000
    ELSE x.m <= 10000 /\ (-x.e) <= 30 /\ x.m * 10000 >= Pow2(-x.e)

\* C4: grad_scale of a mixed-precision Optimizer is in [1e-4, 1e4] in every
\* reachable state; a doubling at the upper bound and a halving at the lower
\* bound leave it at the bound.
C4_ScaleClamped ==
    /\ [](\A o \in OptNames : ScaleInRange(opts[o].grad_scale))
    /\ [][/\ (FiniteCall("critic_opt")
              /\ opts["critic_opt"].good_steps >= GoodStepsLimit
              /\ opts["critic_opt"].grad_scale = ScaleMax)
             => opts'["critic_opt"].grad_scale = ScaleMax
          /\ (NonFiniteCall("critic_opt")
              /\ opts["critic_opt"].grad_scale = ScaleMin)
             => opts'["critic_opt"].grad_scale = ScaleMin]_vars

\* C4 witness: a halving at the lower bound has happened.
C4_Witness ==
    /\ ~last.finite
    /\ opts["critic_opt"].grad_scale = ScaleMin
    /\ opts["critic_opt"].notfinite_count > 27

\* C5: the first call of a SlowUpdater copies the source into the destination
\* whatever the fraction; a later call blends with mix = fraction when the
\* number of previous calls is a multiple of period and leaves the destination
\* unchanged otherwise.
C5_SlowUpdaterSchedule ==
    [][\A u \in UpdaterNames(cfg) :
          updates'[u] = updates[u] + 1 =>
             params'[UpdaterDst(u)] =
                IF updates[u] = 0 THEN params[UpdaterSrc(u)]
                ELSE IF updates[u] % cfg.period = 0
                     THEN ValMix(params[UpdaterSrc(u)], params[UpdaterDst(u)], cfg.fraction)
                     ELSE params[UpdaterDst(u)]]_vars

\* C5 witness: three calls of the critic's updater with period 2 and fraction
\* 1/2: a full copy, a skipped call and a blend that left the copy behind.
C5_Witness ==
    /\ updates["critic_updater"] = 3
    /\ cfg.period = 2
    /\ cfg.fraction = [num |-> 1, den |-> 2]
    /\ params["slow"] # params["net"]
    /\ params["slow"] # Val(0)

\* C6: every Optimizer call leaves the slow copies unchanged, and a slow copy
\* changes only in a call of the SlowUpdater it is the destination of.
C6_SlowCopiesNotTrained ==
    [][/\ last'.tick # last.tick =>
             \A k \in SlowCopies(cfg) : params'[k] = params[k]
       /\ \A k \in SlowCopies(cfg) :
             params'[k] # params[k] =>
                \E u \in UpdaterNames(cfg) :
                    UpdaterDst(u) = k /\ updates'[u] = updates[u] + 1]_vars

\* C6 witness: the critic's optimizer has moved the net while the slow critic
\* still holds its initial value.
C6_Witness ==
    /\ last.opt = "critic_opt" /\ last.finite
    /\ pc = "critic_updater"
    /\ params["net"] = Val(7)
    /\ params["slow"] = Val(0)

\* the number of calls updater u has had when Agent.train stands at pc
UpdaterCalls(u, n) ==
    IF \/ u = "encoder_updater" /\ pc \in {"proj_updater", "actor_opt", "critic_opt", "critic_updater"}
       \/ u = "proj_updater" /\ pc \in {"actor_opt", "critic_opt", "critic_updater"}
    THEN n + 1 ELSE n

\* C7: each training call runs every SlowUpdater of its owner once, after the
\* owner's optimizer call: the updaters of the world model stand right after
\* model_opt, the critic's right after critic_opt, and after n training calls
\* every updater's counter is n.
C7_UpdaterOncePerTrain ==
    /\ \A u \in UpdaterNames(cfg) : updates[u] = UpdaterCalls(u, trains)
    /\ pc = "encoder_updater" => last.opt = "model_opt"
    /\ pc = "proj_updater" => last.opt = "model_opt" /\ cfg.swav
    /\ pc = "critic_updater" => last.opt = "critic_opt"
    /\ cfg.swav => "proj_updater" \in UpdaterNames(cfg)

\* C7 witness: three training calls with the clustering auxiliary and a
\* trained encoder: all three counters stand at 3.
C7_Witness ==
    /\ trains = 3 /\ pc = "model_opt"
    /\ cfg.swav /\ EncoderTrained(cfg)
    /\ \A u \in {"encoder_updater", "proj_updater", "critic_updater"} : updates[u] = 3
\* r + d * ((1 - lambda) * v + lambda * next)
LambdaStep(r, d, v, next, lambda) ==
    RatAdd(r, RatMul(d, RatAdd(RatMul(RatSub(RatOne, lambda), v),
                               RatMul(lambda, next))))

\* x^0 + x^1 + .. + x^(n-1)
RECURSIVE GeoSum(_, _)
GeoSum(x, n) == IF n = 0 THEN Rat(0) ELSE RatAdd(RatOne, RatMul(x, GeoSum(x, n - 1)))

\* the inputs of score are constant: reward r, continuation c, value v
ScoreConstant ==
    /\ \A t \in 1..fin.H : fin.rew[t] = fin.rew[1]
    /\ \A t \in 2..(fin.H + 1) : fin.cont[t] = fin.cont[2]
    /\ \A t \in 1..(fin.H + 1) : fin.value[t] = fin.value[1]

\* the return n steps before the end for constant inputs:
\* (r + d (1 - lambda) v) * sum_{k < n} (d lambda)^k + (d lambda)^n * v
ClosedForm(n) ==
    LET d == RatMul(Rat(fin.cont[2]), RatNorm(fin.horizon - 1, fin.horizon))
        x == RatMul(d, fin.lambda)
        first == RatAdd(Rat(fin.rew[1]),
                        RatMul(RatMul(d, RatSub(RatOne, fin.lambda)), Rat(fin.value[1])))
    IN RatAdd(RatMul(first, GeoSum(x, n)), RatMul(RatPow(x, n), Rat(fin.value[1])))

\* C8: for a trajectory of H + 1 steps score returns H returns, return[t] =
\* reward[t] + discount[t] * ((1 - lambda) * value[t+1] + lambda * return[t+1])
\* with the last value as return[H], which is not returned; for constant
\* inputs the returns are the closed-form geometric sums.
C8_LambdaReturn ==
    fout.fn = "score" =>
       /\ Len(fout.ret) = fin.H
       /\ Len(fout.rew) = fin.H
       /\ Len(fout.base) = fin.H
       /\ \A t \in 1..fin.H :
             fout.ret[t] =
                LambdaStep(Rat(fin.rew[t]), fout.disc[t], Rat(fin.value[t + 1]),
                           IF t = fin.H THEN Rat(fin.value[fin.H + 1]) ELSE fout.ret[t + 1],
                           fin.lambda)
       /\ ScoreConstant =>
             \A t \in 1..fin.H : fout.ret[t] = ClosedForm(fin.H + 1 - t)

\* C8 witness: three returns of a constant trajectory that keeps going, with
\* lambda 1/2 and horizon 4: the last return is 1 + 3/4 * 2 = 5/2.
C8_Witness ==
    /\ fout.fn = "score" /\ fin.H = 3 /\ ScoreConstant
    /\ fin.rew[1] = 1 /\ fin.cont[2] = 1 /\ fin.value[1] = 2
    /\ fin.lambda = [n |-> 1, d |-> 2] /\ fin.horizon = 4
    /\ fout.ret[3] = [n |-> 5, d |-> 2]
    /\ fout.ret[1] # fout.ret[3]

\* C9 as stated: the discount applied to reward[t] is the trajectory's cont
\* flag at the same index t times 1 - 1/horizon.
C9_AsStated ==
    fout.fn = "score" =>
       \A t \in 1..fin.H :
          fout.disc[t] = RatNorm(fin.cont[t] * (fin.horizon - 1), fin.horizon)

\* C9 amended: the discount applied to reward[t] is the cont flag of the next
\* trajectory step, cont[t+1], times 1 - 1/horizon: the flag of the step the
\* transition arrives in; cont[0] is not used.
C9_DiscountUsesNextCont ==
    fout.fn = "score" =>
       /\ Len(fout.disc) = fin.H
       /\ \A t \in 1..fin.H :
             fout.disc[t] = RatNorm(fin.cont[t + 1] * (fin.horizon - 1), fin.horizon)
       /\ \A t \in 1..fin.H :
             fin.cont[t + 1] = 0 => fout.ret[t] = Rat(fin.rew[t])

\* C9 witness: a trajectory that starts terminal (cont[0] = 0) and continues
\* (cont[1] = 1): the first return holds more than the first reward.
C9_Witness ==
    /\ fout.fn = "score"
    /\ fin.cont[1] = 0 /\ fin.cont[2] = 1
    /\ fout.disc[1] = [n |-> 1, d |-> 2]
    /\ fout.ret[1] # Rat(fin.rew[1])

\* C10: imagine with horizon H returns H + 1 steps under every key; step 0 is
\* the start state with the policy's action for it, and each later step is
\* img_step of the step before it and that step's action, with the policy's
\* action for the new state.
C10_ImagineLength ==
    fout.fn = "imagine" =>
       /\ \A k \in {"deter", "stoch", "action", "cont", "weight"} :
             Len(fout[k]) = fin.H + 1
       /\ fout.deter[1] = fin.start.deter
       /\ fout.stoch[1] = fin.start.stoch
       /\ fout.action[1] = Policy(LatentKeys(fin.start), fin.noise.act[1])
       /\ \A t \in 2..(fin.H + 1) :
             LET prev == [deter |-> fout.deter[t - 1], stoch |-> fout.stoch[t - 1]]
                 state == [deter |-> fout.deter[t], stoch |-> fout.stoch[t]]
             IN /\ state = ImgStep(prev, fout.action[t - 1], fin.noise.prior[t - 1])
                /\ fout.action[t] = Policy(state, fin.noise.act[t])

\* C10 witness: a rollout of horizon 3 whose latent state moves.
C10_Witness ==
    /\ fout.fn = "imagine" /\ fin.H = 3
    /\ Len(fout.action) = 4
    /\ fout.deter[2] # fout.deter[1]
    /\ fout.deter[4] # fout.deter[3]

\* C11: jaxutils.scan returns the same result with unroll=True as with
\* unroll=False: one output per input, output i is fn of output i-1 (start
\* for the first) and input i, under the keys of the carry; a step function
\* that changes the carry's tree structure is rejected on both paths.
C11_ScanUnrollEquivalent ==
    fout.fn = "scan" =>
       LET other == JaxutilsScan(fin.kind, fin.inputs, fin.start, ~fin.unroll)
           n == ScanLength(fin.inputs)
           Out(i) == IF i = 0 THEN fin.start
                     ELSE [a |-> fout.out.a[i], b |-> fout.out.b[i]]
       IN /\ (fout.out.raised = "none") = (other.raised = "none")
          /\ fout.out.a = other.a /\ fout.out.b = other.b
          /\ (fout.out.raised = "none") = (fin.kind = "mix")
          /\ fout.out.raised = "none" =>
                /\ Len(fout.out.a) = n /\ Len(fout.out.b) = n
                /\ \A i \in 1..n :
                      Out(i) = ScanFn(fin.kind, Out(i - 1), TreeIndex(fin.inputs, i))

\* C11 witness: an unrolled scan over three inputs whose outputs differ from
\* step to step.
C11_Witness ==
    /\ fout.fn = "scan" /\ fin.unroll /\ fin.kind = "mix"
    /\ ScanLength(fin.inputs) = 3
    /\ fout.out.raised = "none"
    /\ fout.out.a[1] # fout.out.a[2] /\ fout.out.b[2] # fout.out.b[3]

\* C12: where is_first is set, the posterior and the prior of obs_step do not
\* depend on the carried latent and action: in Agent.policy and at every
\* step of the observe of a training call they are those of a step from
\* RSSM.initial with the zero action.
C12_FirstStepForgetsCarry ==
    /\ fout.fn = "policy" /\ fout.obs.is_first =>
          fout.state.latent =
             ObsStep(RssmInitial, 0, Encoder(fout.obs.image), FALSE, fout.z.step).post
    /\ fout.fn = "train" =>
          \A t \in 1..Len(fout.post) :
             fout.data.is_first[t] =>
                LET fresh == ObsStep(RssmInitial, 0, Encoder(fout.data.image[t]),
                                     FALSE, fin.z[t])
                IN fout.post[t] = fresh.post /\ fout.prior[t] = fresh.prior

\* C12 witness: a policy call on a first observation with a carried latent
\* and action that are not the initial ones.
C12_Witness ==
    /\ fout.fn = "policy" /\ fout.obs.is_first
    /\ fout.passed.latent # RssmInitial /\ fout.passed.action = 1
    /\ ObsStep(fout.passed.latent, fout.passed.action, Encoder(fout.obs.image),
               FALSE, fout.z.step).post # fout.state.latent

\* C17: every Agent.policy call in mode train, explore or eval returns an
\* action sampled from the behaviour of the mode (exploration behaviour in
\* explore, task behaviour otherwise) and a log_entropy, and the carry it
\* returns holds that same action and the posterior latent of this call.
C17_PolicyCarriesReturnedAction ==
    fout.fn = "policy" =>
       LET latent == ObsStep(fout.passed.latent, fout.passed.action,
                             Encoder(fout.obs.image), fout.obs.is_first, fout.z.step).post
           behavior == IF fout.mode = "explore" THEN ExplBehavior(fin.expl) ELSE "Greedy"
           dist == Actor(behavior, latent)
       IN /\ DOMAIN fout.outs = {"action", "log_entropy"}
          /\ fout.outs.action = DistSample(dist, fout.z.act)
          /\ fout.outs.log_entropy = (IF fout.mode = "eval" THEN 0 ELSE DistEntropy(dist))
          /\ fout.state.action = fout.outs.action
          /\ fout.state.latent = latent

\* C17 witness: an explore call whose exploration behaviour picks another
\* action than the task behaviour would.
C17_Witness ==
    /\ fout.fn = "policy" /\ fout.mode = "explore" /\ fin.expl = "Explore"
    /\ fout.state.action = 1
    /\ DistSample(Actor("Greedy", fout.state.latent), fout.z.act) = 0

\* C18: a training call returns the posterior of the last time step and the
\* last action of its batch; observe is fed the carried action at t = 0 and
\* the data's action[t-1] after it; and the state handed to a training call
\* is the state the call before it returned.
C18_TrainStateCarried ==
    /\ [](fout.fn = "train" =>
            LET T == Len(fout.data.action)
            IN /\ fout.state = [latent |-> fout.post[T], action |-> fout.data.action[T]]
               /\ fout.prev_actions[1] = fout.passed.action
               /\ \A t \in 2..T : fout.prev_actions[t] = fout.data.action[t - 1]
               /\ fout.post = Observe([t \in 1..T |-> Encoder(fout.data.image[t])],
                                      fout.prev_actions, fout.data.is_first,
                                      fout.passed.latent, fin.z, 1).post)
    /\ [][fout'.fn = "train" => fout'.passed = fout.state]_vars

\* C18 witness: a second training call that starts from a carried state which
\* is not the initial one, on a sequence of two steps.
C18_Witness ==
    /\ fout.fn = "train" /\ Len(fout.data.action) = 2
    /\ fout.passed.latent # RssmInitial /\ fout.passed.action = 1
    /\ fout.prev_actions = <<1, 0>>
    /\ ~fout.data.is_first[1]

\* C13: the value OneHotDist.sample returns is the categorical hard sample,
\* a one-hot vector over a class of positive probability: the term
\* probs - stop_gradient(probs) adds zero to every entry.
C13_SampleIsOneHot ==
    fout.fn = "sample" =>
       /\ fout.value = CategoricalSample(fin.probs, fin.u)
       /\ \E k \in 1..MaxClasses :
             /\ fin.probs[k] > 0
             /\ \A i \in 1..MaxClasses :
                   fout.value[i] = Val(IF i = k THEN ProbUnits ELSE 0)

\* C13 witness: a sample from probabilities that are not one-hot themselves;
\* the second class is drawn.
C13_Witness ==
    /\ fout.fn = "sample"
    /\ fin.probs[1] = 1 /\ fin.probs[2] > 1
    /\ fout.value[2] = Val(ProbUnits) /\ fout.value[1] = Val(0)

C15_AsStated ==
    fout.fn = "agent" /\ fin.mlp_keys = "embed" /\ fin.swav =>
       /\ fout.result.raised = "ValueError"
       /\ \A i \in 1..Len(fout.result.built) :
             fout.result.built[i] \notin {"wm", "task_behavior", "expl_behavior"}

\* C15 amended: constructing an Agent with decoder.mlp_keys == "embed" and
\* aug.swav fails before the world model or a behaviour is constructed: with
\* a ValueError, unless rssm.equiv is set with a task outside the supported
\* ones, where the assert on the task fails first with an AssertionError.
C15_ConstructionFails ==
    fout.fn = "agent" /\ fin.mlp_keys = "embed" /\ fin.swav =>
       /\ fout.result.raised =
             (IF fin.equiv /\ fin.task \notin EquivTasks
              THEN "AssertionError" ELSE "ValueError")
       /\ \A i \in 1..Len(fout.result.built) :
             fout.result.built[i] \notin {"wm", "task_behavior", "expl_behavior"}

\* C15 witness: the incompatible combination with equivariance on a
\* supported task: the group helper is built, then the ValueError is raised.
C15_Witness ==
    /\ fout.fn = "agent" /\ fin.mlp_keys = "embed" /\ fin.swav
    /\ fin.equiv /\ fin.task = "dmc_reacher_easy"
    /\ fout.result = [raised |-> "ValueError", built |-> <<"grp">>]

\* the names the claim counts as implemented for each option
KnownNames(component) ==
    CASE component = "moments_impl" ->
            {"off", "mean_std", "min_max", "perc_ema", "perc_ema_corr", "mean_mag", "max_mag"}
      [] component = "optimizer_opt" -> {"adam"}
      [] component = "mse_agg" -> {"mean", "sum", "cosine"}
      [] component = "symlog_dist" -> {"mse", "abs"}
      [] component = "symlog_agg" -> {"mean", "sum"}
      [] component = "critic_slowreg" -> {"logprob", "xent"}

\* C16: a configured name outside the implemented ones ends in a
\* NotImplementedError and in no implementation: a Moments impl, an Optimizer
\* opt of "belief" or "yogi", an MSEDist aggregation, a SymlogDist distance
\* or aggregation, a critic_slowreg.
C16_UnimplementedVariantRaises ==
    fout.fn = "variant" =>
       /\ fin.name \in KnownNames(fin.component) <=> fout.raised = "none"
       /\ fin.component = "optimizer_opt" /\ fin.name \in {"belief", "yogi"} =>
             fout.raised = "NotImplementedError"
       /\ fin.component # "optimizer_opt" /\ fin.name \notin KnownNames(fin.component) =>
             fout.raised = "NotImplementedError"

\* C16 witness: critic_slowreg set to a name that is neither logprob nor xent.
C16_Witness ==
    /\ fout.fn = "variant" /\ fin.component = "critic_slowreg" /\ fin.name = "mse"
    /\ fout.raised = "NotImplementedError"

\* C19: in the imagined trajectory cont[0] is 1 - is_terminal of the start
\* state, and cont[t] for t >= 1 is the continue head's prediction for the
\* imagined state of step t; what the head predicts for step 0 is dropped.
C19_FirstContIsReal ==
    fout.fn = "imagine" =>
       /\ fout.cont[1] = 1 - fin.start.is_terminal
       /\ \A t \in 2..(fin.H + 1) :
             fout.cont[t] = ContHead([deter |-> fout.deter[t], stoch |-> fout.stoch[t]])

\* C19 witness: a start state that is not terminal although the head
\* predicts the end for it, followed by a step the head predicts the end for.
C19_Witness ==
    /\ fout.fn = "imagine"
    /\ fin.start.is_terminal = 0 /\ ContHead(LatentKeys(fin.start)) = 0
    /\ fout.cont[1] = 1
    /\ \E t \in 2..(fin.H + 1) : fout.cont[t] = 0

\* C20: weight[0] = cont[0] and weight[t] = weight[t-1] * (1 - 1/horizon) *
\* cont[t] for t >= 1; the weight never grows along the trajectory, and a
\* terminal start state (cont[0] = 0) gives weight 0 at every step.
C20_WeightIsDiscountedSurvival ==
    fout.fn = "imagine" =>
       /\ fout.weight[1] = Rat(fout.cont[1])
       /\ \A t \in 2..(fin.H + 1) :
             /\ fout.weight[t] = RatMul(RatMul(fout.weight[t - 1],
                                               HorizonDiscount(fin.horizon)),
                                        Rat(fout.cont[t]))
             /\ RatLeq(fout.weight[t], fout.weight[t - 1])
       /\ fout.cont[1] = 0 => \A t \in 1..(fin.H + 1) : fout.weight[t] = Rat(0)

\* C20 witness: a rollout of horizon 3 that survives two steps with discount
\* 3/4 and is cut at the third: weights 1, 3/4, 9/16, 0.
C20_Witness ==
    /\ fout.fn = "imagine" /\ fin.H = 3 /\ fin.horizon = 4
    /\ fout.weight = <<[n |-> 1, d |-> 1], [n |-> 3, d |-> 4],
                       [n |-> 9, d |-> 16], [n |-> 0, d |-> 1]>>

\* C25: good_steps of a mixed-precision Optimizer stays in 0..1000; a call
\* with a non-finite gradient and the call that doubles grad_scale set it to
\* 0, every other call adds one; grad_scale changes on a call only if it is
\* one of those two, and does change on them unless the clamp holds it.
C25_GoodStepsCount ==
    /\ [](\A o \in OptNames : opts[o].good_steps \in 0..GoodStepsLimit)
    /\ [][LET old == opts["critic_opt"]
              new == opts'["critic_opt"]
              doubling == FiniteCall("critic_opt") /\ old.good_steps = GoodStepsLimit
          IN /\ NonFiniteCall("critic_opt") \/ doubling => new.good_steps = 0
             /\ FiniteCall("critic_opt") /\ ~doubling =>
                   /\ new.good_steps = old.good_steps + 1
                   /\ new.grad_scale = old.grad_scale
             /\ new.grad_scale # old.grad_scale =>
                   NonFiniteCall("critic_opt") \/ doubling
             /\ NonFiniteCall("critic_opt") /\ old.grad_scale # ScaleMin =>
                   new.grad_scale # old.grad_scale
             /\ doubling /\ old.grad_scale # ScaleMax =>
                   new.grad_scale # old.grad_scale]_vars

\* C25 witness: 1000 finite calls in a row after one halving: good_steps
\* stands at 1000 and the next finite call doubles the scale.
C25_Witness ==
    /\ opts["critic_opt"].good_steps = GoodStepsLimit
    /\ opts["critic_opt"].grad_scale = ScaleDiv2(ScaleInit)
    /\ last.finite

\* C26: Agent.train hands back a carry state of the batch size it was given
\* (one example here): without swav the world model sees that batch, with
\* swav it sees the data and the carried state twice and the first half of
\* the state it returns is handed back.
C26_TrainKeepsBatchSize ==
    fout.fn = "train" =>
       /\ fout.batch_size = (IF fin.swav THEN 2 ELSE 1)
       /\ fout.returned_size = 1
       /\ fout.state.latent = fout.post[Len(fout.post)]

\* C26 witness: a second training call under swav: the world model saw two
\* examples and one is handed on.
C26_Witness ==
    /\ fout.fn = "train" /\ fin.swav
    /\ fout.passed # WmInitial
    /\ fout.batch_size = 2 /\ fout.returned_size = 1

\* C27: Moments.__call__ updates before it reads the statistics, so the
\* divisor 1 - decay^step of mean_std and perc_ema_corr is read with
\* step >= 1 and is not zero, and the scale every variant returns is at
\* least 1/max (exactly 1 for "off") after any sequence of updates.
C27_ScaleNeverZero ==
    fout.fn = "moments" =>
       LET floor == RatDiv(RatOne, fin.max)
       IN /\ ~fout.stats.divzero
          /\ fout.stats.offset.d > 0 /\ fout.stats.scale.d > 0
          /\ fin.impl \in {"mean_std", "perc_ema_corr"} =>
                fout.stats.step = fout.calls /\ fout.stats.step >= 1
          /\ IF fout.stats.squared
             THEN RatLeq(RatMul(floor, floor), fout.stats.scale)
             ELSE RatLeq(floor, fout.stats.scale)
          /\ fout.stats.scale.n > 0
          /\ fin.impl = "off" => fout.stats.scale = RatOne

\* C27 witness: a mean_std normalizer that saw only zero returns: the
\* variance is zero and the scale rests on the floor 1/max^2.
C27_Witness ==
    /\ fout.fn = "moments" /\ fin.impl = "mean_std" /\ fout.calls = 2
    /\ fin.max = Rat(8) /\ fin.eps = Rat(0)
    /\ fout.vars.sqrs = Rat(0)
    /\ fout.stats.scale = RatNorm(1, 64)

\* C21: the actor loss has one term for each of the time steps 0..H-1: the
\* log-probability, entropy and weight of the final step H do not enter it,
\* each term is the step's loss times that step's weight times the actor
\* loss scale, and the advantage has the H time steps of the returns.
C21_ActorLossSteps ==
    fout.fn = "actor_loss" =>
       /\ Len(fin.steps) = fin.H + 1
       /\ Len(fout.ret) = fin.H /\ Len(fout.adv) = fin.H /\ Len(fout.loss) = fin.H
       /\ \A t \in 1..fin.H :
             LET term == IF fin.grad = "backprop" THEN RatSub(Rat(0), fout.adv[t])
                         ELSE RatSub(Rat(0), RatMul(fin.steps[t].logpi, fout.adv[t]))
                 perstep == RatSub(term, RatMul(fin.actent, fin.steps[t].ent))
             IN fout.loss[t] = RatMul(RatMul(perstep, fin.steps[t].weight), fin.scale)
       /\ \A s \in StepProfiles :
             LET other == ActorLoss([fin EXCEPT !.steps[fin.H + 1] = s])
             IN other.loss = fout.loss /\ other.mean = fout.mean

\* C21 witness: a trajectory whose final step has weight 0 and whose earlier
\* steps have weight 1, with a loss that is not zero at the last kept step.
C21_Witness ==
    /\ fout.fn = "actor_loss" /\ fin.H = MaxH /\ fin.grad = "reinforce"
    /\ fin.steps[fin.H + 1].weight = Rat(0)
    /\ \A t \in 1..fin.H : fin.steps[t].weight = RatOne
    /\ fout.loss[fin.H].n # 0

C23_NoTrainBeforePrefill ==
    /\ [](fout.fn = "loop" =>
            LET need == IF fin.batch_steps > fin.train_fill THEN fin.batch_steps
                        ELSE fin.train_fill
                registered == \E i \in 1..Len(fout.on_step) :
                                 fout.on_step[i] = "train_step"
            IN /\ fout.phase = "prefill" =>
                     /\ ~registered /\ fout.updates = 0
                     /\ fout.policy \in {"none", "init_agent"}
               /\ registered => fout.replay >= need
               /\ fout.updates > 0 => fout.replay >= need /\ fout.policy = "agent")
    /\ [][fout.fn = "loop" /\ fout'.updates > fout.updates =>
             /\ fout.phase = "main"
             /\ fout.on_step = Append(DriverCallbacks, "train_step")
             /\ fout.replay >= (IF fin.batch_steps > fin.train_fill
                                THEN fin.batch_steps ELSE fin.train_fill)]_vars

\* C23 witness: the first training happens on the first step of the main
\* loop, after a prefill that ran the initial policy.
C23_Witness ==
    /\ fout.fn = "loop" /\ fout.phase = "main" /\ fout.updates > 0
    /\ fin.train_fill > fin.batch_steps
    /\ fout.replay = fin.train_fill + 1

\* C24 as stated: agent.report is never called with the placeholder None,
\* whatever should_train and should_log return.
C24_AsStated == fout.fn = "loop" => fout.report # "None"

\* C28: with log_zeros off the set of keys seen as non-zero only grows; a
\* key that is all zero in an episode is skipped exactly if it was not
\* non-zero in an earlier episode, and a key that has been non-zero is taken
\* into the statistics of every later episode, all-zero ones included.
C28_NonzerosOnlyGrow ==
    /\ [](fout.fn = "loop" /\ ~fin.log_zeros => fout.nonzeros = fout.ever)
    /\ [][fout.fn = "loop" /\ ~fin.log_zeros =>
            /\ fout.nonzeros \subseteq fout'.nonzeros
            /\ fout'.episodes = fout.episodes + 1 =>
                  /\ \A k \in DOMAIN fout'.ep :
                        k \notin fout'.taken <=> fout'.ep[k] = 0 /\ k \notin fout.ever
                  /\ \A k \in fout.ever \cap DOMAIN fout'.ep :
                        /\ k \in fin.log_keys.sum => <<"sum", k>> \in fout'.stats
                        /\ k \in fin.log_keys.mean => <<"mean", k>> \in fout'.stats
                        /\ k \in fin.log_keys.max => <<"max", k>> \in fout'.stats]_vars

\* C28 witness: a second episode in which the reward is all zero after a
\* first one in which it was not: the reward is taken, the other key is not.
C28_Witness ==
    /\ fout.fn = "loop" /\ ~fin.log_zeros /\ fout.episodes = 2
    /\ fout.ep = [k \in EpisodeKeys |-> 0]
    /\ fout.taken = {"reward"} /\ fout.nonzeros = {"reward"}
    /\ <<"sum", "reward">> \in fout.stats

====
